---- MODULE Spec2Model ----
(***************************************************************************)
(* A model of gcc/config/rs6000/rs6000-gen-builtins.c: the generator that  *)
(* reads the built-in function file and the overload file and writes the   *)
(* header, the initialisation file and the defines file.                   *)
(*                                                                         *)
(* Text is modelled character by character: a line is a sequence of        *)
(* one-character strings ending in "\n", an identifier is the sequence of  *)
(* its characters.  The scanner and the parsers are operators that take    *)
(* the line buffer and the cursor and return the new cursor, a status and  *)
(* the diagnostics they print.                                             *)
(***************************************************************************)
EXTENDS Integers, Sequences, FiniteSets, TLC

(***************************************************************************)
(* Program constants.                                                      *)
(***************************************************************************)
LINELEN == 1024
MININT == -2147483647 - 1
MAXBIFSTANZAS == 256
MAXBIFS == 16384
MAXOVLDSTANZAS == 256
MAXOVLDS == 16384
TYPE_MAP_SIZE == 33

VOID_NOTOK == 0
VOID_OK == 1

FNK_NONE == 0
FNK_CONST == 1
FNK_PURE == 2
FNK_FPMATH == 3

BT_CHAR == 0
BT_SHORT == 1
BT_INT == 2
BT_LONGLONG == 3
BT_FLOAT == 4
BT_DOUBLE == 5
BT_INT128 == 6
BT_FLOAT128 == 7

RES_NONE == 0
RES_BITS == 1
RES_RANGE == 2
RES_VAR_RANGE == 3
RES_VALUES == 4

EC_OK == 0
EC_BADARGS == 1
EC_NOBIF == 2
EC_NOOVLD == 3
EC_NOHDR == 4
EC_NOINIT == 5
EC_NODEFINES == 6
EC_PARSEBIF == 7
EC_PARSEOVLD == 8
EC_WRITEHDR == 9
EC_WRITEINIT == 10
EC_WRITEDEFINES == 11
EC_INTERR == 12

(***************************************************************************)
(* Characters.  NUL is the terminator fgets stores after the text; NULL is *)
(* the null pointer a failed match_identifier returns (an identifier is    *)
(* never empty, so the empty sequence is free to stand for it).            *)
(***************************************************************************)
NUL == "NUL"
NULL == <<>>

Digits == {"0", "1", "2", "3", "4", "5", "6", "7", "8", "9"}
Lower == {"a", "b", "c", "d", "e", "f", "g", "h", "i", "j", "k", "l", "m",
          "n", "o", "p", "q", "r", "s", "t", "u", "v", "w", "x", "y", "z"}
Upper == {"A", "B", "C", "D", "E", "F", "G", "H", "I", "J", "K", "L", "M",
          "N", "O", "P", "Q", "R", "S", "T", "U", "V", "W", "X", "Y", "Z"}

\* The vertical tab, character 11, for which a string has no escape.
VT == ""

\* isspace in the "C" locale: space, \t, \n, \v, \f and \r.
isspace(c) == c \in {" ", "\t", "\n", VT, "\f", "\r"}
isdigit(c) == c \in Digits
isalnum(c) == c \in Digits \cup Lower \cup Upper

DigitVal(c) == CASE c = "0" -> 0 [] c = "1" -> 1 [] c = "2" -> 2 [] c = "3" -> 3
                 [] c = "4" -> 4 [] c = "5" -> 5 [] c = "6" -> 6 [] c = "7" -> 7
                 [] c = "8" -> 8 [] c = "9" -> 9

\* linebuf[p] for the zero-based cursor p: the text fgets stored, then NUL.
At(buf, p) == IF p >= 0 /\ p + 1 <= Len(buf) THEN buf[p + 1] ELSE NUL

\* The C string held in a character buffer, as one TLA+ string (for strcmp
\* against the keywords of the grammar).
RECURSIVE Str(_)
Str(s) == IF s = <<>> THEN "" ELSE Head(s) \o Str(Tail(s))

Diag(msg, col) == [msg |-> msg, col |-> col]

Fatal(st) == st \in {"interr", "ub", "abort"}

(***************************************************************************)
(* Scanner.                                                                *)
(***************************************************************************)
\* The position at which a loop that starts at p and steps by one while
\* Goes holds comes to a stop; the terminator of the line stops every scan.
ScanWhile(Goes(_), buf, p) ==
  IF p >= Len(buf)
  THEN p
  ELSE CHOOSE q \in p .. Len(buf) : ~Goes(q) /\ \A k \in p .. (q - 1) : Goes(k)

consume_whitespace(buf, p) ==
  LET Goes(q) == q < LINELEN /\ isspace(At(buf, q)) /\ At(buf, q) # "\n"
  IN ScanWhile(Goes, buf, p)

\* The overrun test of safe_inc_pos: pos++ >= LINELEN.
Overrun(p) == p >= LINELEN
safe_inc_pos(p) == p + 1
InterrAt(p) == [st |-> "interr", pos |-> p + 1,
                d |-> <<Diag("line length overrun.", 0)>>]

\* The loop of match_identifier: lastpos is stepped while the next
\* character belongs to an identifier, and the first step that reaches
\* LINELEN - 1 ends the run.
ident_scan(buf, lastpos) ==
  LET Goes(q) == isalnum(At(buf, q)) \/ At(buf, q) = "_"
      end == ScanWhile(Goes, buf, lastpos + 1) - 1
  IN IF end > lastpos /\ end >= LINELEN - 1
     THEN [ovr |-> TRUE,
           lastpos |-> IF lastpos + 1 >= LINELEN - 1 THEN lastpos + 1 ELSE LINELEN - 1]
     ELSE [ovr |-> FALSE, lastpos |-> end]

\* match_identifier once the scan stopped at s.lastpos.
ident_token(buf, p, s) ==
  IF s.ovr
  THEN [st |-> "interr", tok |-> NULL, pos |-> p,
        d |-> <<Diag("line length overrun.", 0)>>]
  ELSE IF s.lastpos < p
  THEN [st |-> "ok", tok |-> NULL, pos |-> p, d |-> <<>>]
  ELSE [st |-> "ok", tok |-> SubSeq(buf, p + 1, s.lastpos + 1),
        pos |-> s.lastpos + 1, d |-> <<>>]

match_identifier(buf, p) == ident_token(buf, p, ident_scan(buf, p - 1))

RECURSIVE digit_scan(_, _)
digit_scan(buf, lastpos) ==
  IF isdigit(At(buf, lastpos + 1))
  THEN IF lastpos + 1 >= LINELEN - 1
       THEN [ovr |-> TRUE, lastpos |-> lastpos + 1]
       ELSE digit_scan(buf, lastpos + 1)
  ELSE [ovr |-> FALSE, lastpos |-> lastpos]

\* sscanf (buf, "%d", &x) on an optional '-' followed by digits.  The C
\* library converts the numeral with strtol to a long, which clamps it to
\* LONG_MIN .. LONG_MAX, and stores the low 32 bits of that long in x: a
\* numeral outside the range of int comes back wrapped, never as a failure.
\* The low 32 bits are kept as two 16-bit halves <<high, low>>.
LONG_MAX_DIGITS ==
  <<"9", "2", "2", "3", "3", "7", "2", "0", "3", "6", "8", "5", "4", "7", "7",
    "5", "8", "0", "7">>
LONG_MIN_DIGITS ==
  <<"9", "2", "2", "3", "3", "7", "2", "0", "3", "6", "8", "5", "4", "7", "7",
    "5", "8", "0", "8">>

\* The numeral s without its leading zeros.
Significant(s) ==
  IF \A k \in 1 .. Len(s) : s[k] = "0" THEN <<>>
  ELSE SubSeq(s, CHOOSE k \in 1 .. Len(s) :
                   s[k] # "0" /\ \A j \in 1 .. (k - 1) : s[j] = "0", Len(s))

\* The numeral s is larger than the numeral limit.
Exceeds(s, limit) ==
  LET t == Significant(s) IN
  \/ Len(t) > Len(limit)
  \/ /\ Len(t) = Len(limit)
     /\ \E k \in 1 .. Len(t) :
          /\ DigitVal(t[k]) > DigitVal(limit[k])
          /\ \A j \in 1 .. (k - 1) : t[j] = limit[j]

\* The value of the digits s modulo 2^32, after the halves acc.
RECURSIVE scan_digits(_, _)
scan_digits(s, acc) ==
  IF s = <<>> THEN acc
  ELSE LET low == acc[2] * 10 + DigitVal(Head(s))
           high == acc[1] * 10 + low \div 65536
       IN scan_digits(Tail(s), <<high % 65536, low % 65536>>)

\* The halves of 0 - h modulo 2^32.
Negated(h) ==
  IF h[2] = 0 THEN <<(65536 - h[1]) % 65536, 0>>
  ELSE <<65535 - h[1], 65536 - h[2]>>

\* The int whose 32 bits are the halves h.
AsInt(h) ==
  IF h[1] >= 32768 THEN (h[1] - 65536) * 65536 + h[2] ELSE h[1] * 65536 + h[2]

sscanf_d(s) ==
  IF Head(s) = "-"
  THEN IF Exceeds(Tail(s), LONG_MIN_DIGITS) THEN 0
       ELSE AsInt(Negated(scan_digits(Tail(s), <<0, 0>>)))
  ELSE IF Exceeds(s, LONG_MAX_DIGITS) THEN 0 - 1
       ELSE AsInt(scan_digits(s, <<0, 0>>))

\* match_integer after sscanf: x is the conversion of the characters up to
\* lastpos.
integer_value(lastpos, x) ==
  [st |-> "ok", val |-> x, pos |-> lastpos + 1, d |-> <<>>]

\* match_integer once the digits from p1 on were scanned; p is where the
\* token starts, at the '-' if there is one.
integer_token(buf, p, p1, s) ==
  IF At(buf, p) = "-" /\ Overrun(p)
  THEN [st |-> "interr", val |-> MININT, pos |-> p1,
        d |-> <<Diag("line length overrun.", 0)>>]
  ELSE IF s.ovr
  THEN [st |-> "interr", val |-> MININT, pos |-> p1,
        d |-> <<Diag("line length overrun in match_integer.", 0)>>]
  ELSE IF s.lastpos < p1
  THEN [st |-> "ok", val |-> MININT, pos |-> p1, d |-> <<>>]
  ELSE integer_value(s.lastpos, sscanf_d(SubSeq(buf, p + 1, s.lastpos + 1)))

integer_digits(buf, p, p1) == integer_token(buf, p, p1, digit_scan(buf, p1 - 1))

match_integer(buf, p) ==
  integer_digits(buf, p, IF At(buf, p) = "-" THEN safe_inc_pos(p) ELSE p)


(***************************************************************************)
(* Type descriptors (struct typeinfo) and the type parser.                 *)
(***************************************************************************)
\* memset (typedata, 0, sizeof (*typedata))
ZeroType ==
  [isvoid |-> 0, isconst |-> 0, isvector |-> 0, issigned |-> 0,
   isunsigned |-> 0, isbool |-> 0, ispixel |-> 0, ispointer |-> 0,
   isopaque |-> 0, base |-> BT_CHAR, restr |-> RES_NONE, val1 |-> 0,
   val2 |-> 0]

\* The vector shorthand tokens of match_type and the fields each one sets:
\* <<issigned, isunsigned, isbool, ispixel, base>>.
VecTokens ==
  [vsc |-> <<1, 0, 0, 0, BT_CHAR>>,      vuc |-> <<0, 1, 0, 0, BT_CHAR>>,
   vbc |-> <<0, 0, 1, 0, BT_CHAR>>,      vss |-> <<1, 0, 0, 0, BT_SHORT>>,
   vus |-> <<0, 1, 0, 0, BT_SHORT>>,     vbs |-> <<0, 0, 1, 0, BT_SHORT>>,
   vsi |-> <<1, 0, 0, 0, BT_INT>>,       vui |-> <<0, 1, 0, 0, BT_INT>>,
   vbi |-> <<0, 0, 1, 0, BT_INT>>,       vsll |-> <<1, 0, 0, 0, BT_LONGLONG>>,
   vull |-> <<0, 1, 0, 0, BT_LONGLONG>>, vbll |-> <<0, 0, 1, 0, BT_LONGLONG>>,
   vsq |-> <<1, 0, 0, 0, BT_INT128>>,    vuq |-> <<0, 1, 0, 0, BT_INT128>>,
   vbq |-> <<0, 0, 1, 0, BT_INT128>>,    vp |-> <<0, 0, 0, 1, BT_SHORT>>,
   vf |-> <<0, 0, 0, 0, BT_FLOAT>>,      vd |-> <<0, 0, 0, 0, BT_DOUBLE>>]

\* The one-token base types of match_basetype ("long" needs a second token).
BaseTokens ==
  [char |-> BT_CHAR, short |-> BT_SHORT, int |-> BT_INT, float |-> BT_FLOAT,
   double |-> BT_DOUBLE, __int128 |-> BT_INT128, _Float128 |-> BT_FLOAT128]

\* The result of a parser of the match_type family that stops on the failed
\* step r: ti is what it had written through typedata by then.
Failed(r, ti) == [st |-> r.st, pos |-> r.pos, ti |-> ti, d |-> r.d]

handle_pointer(buf, p, ti) ==
  LET p1 == consume_whitespace(buf, p) IN
  IF At(buf, p1) = "*"
  THEN IF Overrun(p1) THEN Failed(InterrAt(p1), [ti EXCEPT !.ispointer = 1])
       ELSE [st |-> "ok", pos |-> safe_inc_pos(p1),
             ti |-> [ti EXCEPT !.ispointer = 1], d |-> <<>>]
  ELSE [st |-> "ok", pos |-> p1, ti |-> ti, d |-> <<>>]

\* match_basetype after the token "long": m is the token that follows.
basetype_long(buf, oldpos, ti, m) ==
  IF m.st # "ok" THEN Failed(m, ti)
  ELSE IF m.tok = NULL \/ Str(m.tok) # "long"
  THEN [st |-> "fail", pos |-> m.pos, ti |-> ti,
        d |-> <<Diag("incomplete 'long long' at column %d", oldpos + 1)>>]
  ELSE handle_pointer(buf, m.pos, [ti EXCEPT !.base = BT_LONGLONG])

\* match_basetype on its first token t, read at oldpos.
basetype_token(buf, oldpos, ti, t) ==
  LET tok == Str(t.tok) IN
  IF t.st # "ok" THEN Failed(t, ti)
  ELSE IF t.tok = NULL
  THEN [st |-> "fail", pos |-> t.pos, ti |-> ti,
        d |-> <<Diag("missing base type in return type at column %d", t.pos + 1)>>]
  ELSE IF tok \in DOMAIN BaseTokens \/ tok = "long"
  THEN IF tok = "long"
       THEN basetype_long(buf, oldpos, ti,
                          match_identifier(buf, consume_whitespace(buf, t.pos)))
       ELSE handle_pointer(buf, t.pos, [ti EXCEPT !.base = BaseTokens[tok]])
  ELSE [st |-> "fail", pos |-> t.pos, ti |-> ti,
        d |-> <<Diag("unrecognized base type at column %d", oldpos + 1)>>]

match_basetype(buf, p, ti) ==
  basetype_token(buf, consume_whitespace(buf, p), ti,
                 match_identifier(buf, consume_whitespace(buf, p)))

\* The tail shared by the three branches of match_const_restriction after
\* the opening character: x, separator, y, closing character.  The '<'
\* branch steps over the comma with safe_inc_pos; the '{' and '[' branches
\* only call consume_whitespace after testing for it.
restr_close(buf, p2, ti, x, y, kind, close) ==
  LET set == [ti EXCEPT !.restr = kind, !.val1 = x, !.val2 = y.val] IN
  IF At(buf, p2) # close
  THEN [st |-> "fail", pos |-> p2, ti |-> set,
        d |-> <<Diag("malformed restriction at column %d.", p2 + 1)>>]
  ELSE IF Overrun(p2) THEN Failed(InterrAt(p2), set)
  ELSE [st |-> "ok", pos |-> safe_inc_pos(p2), ti |-> set, d |-> <<>>]

restr_second(buf, p, oldpos, ti, x, kind, close, skipcomma, y) ==
  IF skipcomma /\ Overrun(p) THEN Failed(InterrAt(p), ti)
  ELSE IF y.st # "ok" THEN Failed(y, ti)
  ELSE IF y.val = MININT
  THEN [st |-> "fail", pos |-> y.pos, ti |-> ti,
        d |-> <<Diag("malformed integer at column %d.", oldpos + 1)>>]
  ELSE restr_close(buf, consume_whitespace(buf, y.pos), ti, x, y, kind, close)

restr_pair(buf, p, ti, x, kind, close, skipcomma) ==
  LET oldpos == IF skipcomma THEN safe_inc_pos(p) ELSE consume_whitespace(buf, p)
  IN restr_second(buf, p, oldpos, ti, x, kind, close, skipcomma,
                  match_integer(buf, oldpos))

\* match_const_restriction after the first integer x of the branch opened
\* by c: the '<' branch ends here on '>', and every branch goes on to its
\* second integer on ','.
restr_separator(buf, p2, ti, c, x) ==
  IF c = "<" /\ At(buf, p2) = ">"
  THEN IF Overrun(p2)
       THEN Failed(InterrAt(p2), [ti EXCEPT !.restr = RES_BITS, !.val1 = x.val])
       ELSE [st |-> "ok", pos |-> safe_inc_pos(p2),
             ti |-> [ti EXCEPT !.restr = RES_BITS, !.val1 = x.val],
             d |-> <<>>]
  ELSE IF At(buf, p2) # ","
  THEN [st |-> "fail", pos |-> p2, ti |-> ti,
        d |-> <<Diag(IF c = "<" THEN "malformed restriction at column %d."
                     ELSE "missing comma at column %d.", p2 + 1)>>]
  ELSE restr_pair(buf, p2, ti, x.val,
                  CASE c = "<" -> RES_RANGE [] c = "{" -> RES_VALUES
                    [] OTHER -> RES_VAR_RANGE,
                  CASE c = "<" -> ">" [] c = "{" -> "}" [] OTHER -> "]",
                  c = "<")

restr_first(buf, p, oldpos, ti, c, x) ==
  IF c \notin {"<", "{", "["}
  THEN [st |-> "abort", pos |-> p, ti |-> ti,
        d |-> <<>>]                          \* assert (linebuf[pos] == '[')
  ELSE IF Overrun(p) THEN Failed(InterrAt(p), ti)
  ELSE IF x.st # "ok" THEN Failed(x, ti)
  ELSE IF x.val = MININT
  THEN [st |-> "fail", pos |-> x.pos, ti |-> ti,
        d |-> <<Diag("malformed integer at column %d.", oldpos + 1)>>]
  ELSE restr_separator(buf, consume_whitespace(buf, x.pos), ti, c, x)

match_const_restriction(buf, p, ti) ==
  restr_first(buf, p, safe_inc_pos(p), ti, At(buf, p),
              match_integer(buf, safe_inc_pos(p)))

\* match_type testing for '[' where it should test for '<'.
RestrictionOpeners_m == {"[", "{"}

\* The characters after "const int" for which match_type hands the type to
\* match_const_restriction.
RestrictionOpeners == {"<", "{"}

\* match_type after "const" without its assignment of BT_INT to base.
const_suffix_m(buf, p3, ti2) ==
  IF At(buf, p3) \in RestrictionOpeners
  THEN match_const_restriction(buf, p3, [ti2 EXCEPT !.base = ZeroType.base])
  ELSE [st |-> "ok", pos |-> p3, ti |-> [ti2 EXCEPT !.base = ZeroType.base], d |-> <<>>]

\* match_type after "const [signed|unsigned] int": the restriction, if any.
const_suffix(buf, p3, ti2) ==
  IF At(buf, p3) \in RestrictionOpeners
  THEN match_const_restriction(buf, p3, ti2)
  ELSE [st |-> "ok", pos |-> p3, ti |-> ti2, d |-> <<>>]

\* match_type after the token t that follows "const"; t2 is the token after
\* t, which the code reads only when t is "signed" or "unsigned".
const_second(buf, oldpos, oldpos2, ti, t, t2) ==
  LET tok == Str(t.tok)
      sgn == tok \in {"signed", "unsigned"}
      ti1 == IF tok = "signed" THEN [ti EXCEPT !.issigned = 1]
             ELSE IF tok = "unsigned" THEN [ti EXCEPT !.isunsigned = 1]
             ELSE ti
  IN
  IF sgn /\ t2.st # "ok" THEN Failed(t2, ti1)
  ELSE IF sgn /\ t2.tok = NULL
  THEN [st |-> "ub", pos |-> t2.pos, ti |-> ti1, d |-> <<>>]
  ELSE IF sgn /\ Str(t2.tok) # "int"
  THEN [st |-> "fail", pos |-> t2.pos, ti |-> ti1,
        d |-> <<Diag(IF tok = "signed"
                     THEN "'signed' not followed by 'int' at column %d."
                     ELSE "'unsigned' not followed by 'int' at column %d.",
                     oldpos2 + 1)>>]
  ELSE IF ~sgn /\ tok # "int"
  THEN [st |-> "fail", pos |-> t.pos, ti |-> ti,
        d |-> <<Diag("'const' not followed by 'int' at column %d.", oldpos + 1)>>]
  ELSE const_suffix(buf, consume_whitespace(buf, IF sgn THEN t2.pos ELSE t.pos),
                    [ti1 EXCEPT !.base = BT_INT])

\* strcmp on the null pointer a failed match_identifier returns is undefined.
const_first(buf, oldpos, ti, t) ==
  IF t.st # "ok" THEN Failed(t, ti)
  ELSE IF t.tok = NULL THEN [st |-> "ub", pos |-> t.pos, ti |-> ti, d |-> <<>>]
  ELSE const_second(buf, oldpos, consume_whitespace(buf, t.pos), ti, t,
                    match_identifier(buf, consume_whitespace(buf, t.pos)))

\* match_type after the token "const": [signed|unsigned] int [restriction].
match_const_type(buf, p, ti) ==
  const_first(buf, consume_whitespace(buf, p), ti,
              match_identifier(buf, consume_whitespace(buf, p)))

\* match_type on "void" without its test of voidok.
type_void_m(buf, pv, voidok) ==
  IF At(buf, pv) = "*"
  THEN [st |-> "ok", pos |-> safe_inc_pos(pv),
        ti |-> [ZeroType EXCEPT !.isvoid = 1, !.ispointer = 1], d |-> <<>>]
  ELSE [st |-> "ok", pos |-> pv, ti |-> [ZeroType EXCEPT !.isvoid = 1], d |-> <<>>]

\* match_type after the token "void".
type_void(buf, pv, voidok) ==
  IF At(buf, pv) = "*"
  THEN IF Overrun(pv)
       THEN Failed(InterrAt(pv), [ZeroType EXCEPT !.isvoid = 1, !.ispointer = 1])
       ELSE [st |-> "ok", pos |-> safe_inc_pos(pv),
             ti |-> [ZeroType EXCEPT !.isvoid = 1, !.ispointer = 1],
             d |-> <<>>]
  ELSE IF voidok = VOID_NOTOK
  THEN [st |-> "fail", pos |-> pv, ti |-> [ZeroType EXCEPT !.isvoid = 1],
        d |-> <<>>]
  ELSE [st |-> "ok", pos |-> pv, ti |-> [ZeroType EXCEPT !.isvoid = 1],
        d |-> <<>>]

\* match_type on its first token t, read at oldpos.
type_token(buf, oldpos, voidok, t) ==
  LET tok == Str(t.tok)
      v == VecTokens[tok]
      sgn == tok \in {"signed", "unsigned"}
  IN
  IF t.st # "ok" THEN Failed(t, ZeroType)
  ELSE IF t.tok = NULL THEN [st |-> "fail", pos |-> t.pos, ti |-> ZeroType, d |-> <<>>]
  ELSE IF tok = "const"
  THEN match_const_type(buf, t.pos, [ZeroType EXCEPT !.isconst = 1])
  ELSE IF tok \in DOMAIN VecTokens
  THEN handle_pointer(buf, t.pos,
         [ZeroType EXCEPT !.isvector = 1, !.issigned = v[1],
                          !.isunsigned = v[2], !.isbool = v[3],
                          !.ispixel = v[4], !.base = v[5]])
  ELSE IF tok = "vop"
  THEN [st |-> "ok", pos |-> t.pos, ti |-> [ZeroType EXCEPT !.isopaque = 1],
        d |-> <<>>]
  ELSE IF tok = "void" THEN type_void(buf, consume_whitespace(buf, t.pos), voidok)
  ELSE match_basetype(buf,
                      IF sgn THEN consume_whitespace(buf, t.pos) ELSE oldpos,
                      IF tok = "signed" THEN [ZeroType EXCEPT !.issigned = 1]
                      ELSE IF tok = "unsigned" THEN [ZeroType EXCEPT !.isunsigned = 1]
                      ELSE ZeroType)

match_type(buf, p, voidok) ==
  type_token(buf, consume_whitespace(buf, p), voidok,
             match_identifier(buf, consume_whitespace(buf, p)))

(***************************************************************************)
(* Prototypes (struct prototype), the argument list and the prototype      *)
(* parser.                                                                 *)
(***************************************************************************)
\* A prototype in the zero-initialised static tables bifs[] and ovlds[].
ZeroProto ==
  [rettype |-> ZeroType, bifname |-> NULL, nargs |-> 0, args |-> <<>>,
   restr_opnd |-> 0, restr |-> RES_NONE, restr_val1 |-> 0, restr_val2 |-> 0]

\* parse_args without its test for a second restricted argument.
SecondRestriction_m(proto, ti) == FALSE

\* parse_args records a restricted argument; a second one is refused.
SecondRestriction(proto, ti) == ti.restr # RES_NONE /\ proto.restr_opnd # 0

\* The result of a parser of the prototype that stops on the failed step r:
\* proto is what it had written through protoptr by then.
Stopped(r, proto) == [st |-> r.st, pos |-> r.pos, proto |-> proto, d |-> r.d]

record_arg(proto, ti) ==
  LET pr == IF ti.restr # RES_NONE
            THEN [proto EXCEPT !.restr_opnd = proto.nargs + 1,
                               !.restr = ti.restr,
                               !.restr_val1 = ti.val1,
                               !.restr_val2 = ti.val2]
            ELSE proto
  IN [pr EXCEPT !.nargs = proto.nargs + 1, !.args = Append(proto.args, ti)]

\* One turn of the do-while loop of parse_args, and the turns after it.
RECURSIVE parse_args_loop(_, _, _)

\* parse_args after an argument type mt was matched, at the separator: the
\* argument is counted and linked before the separator is looked at.
args_separator(buf, p1, proto, mt) ==
  IF SecondRestriction(proto, mt.ti)
  THEN [st |-> "fail", pos |-> mt.pos, proto |-> proto,
        d |-> <<Diag("More than one restricted operand", 0)>>]
  ELSE IF At(buf, p1) = ","
  THEN IF Overrun(p1) THEN Stopped(InterrAt(p1), record_arg(proto, mt.ti))
       ELSE parse_args_loop(buf, safe_inc_pos(p1), record_arg(proto, mt.ti))
  ELSE IF At(buf, p1) # ")"
  THEN [st |-> "fail", pos |-> p1, proto |-> record_arg(proto, mt.ti),
        d |-> <<Diag("arg not followed by ',' or ')' at column %d.", p1 + 1)>>]
  ELSE parse_args_loop(buf, p1, record_arg(proto, mt.ti))

\* One turn of the do-while loop of parse_args: mt is what match_type made
\* of the text at oldpos.
args_turn(buf, oldpos, proto, mt) ==
  IF Fatal(mt.st) THEN Stopped(mt, proto)
  ELSE IF mt.st = "ok"
  THEN args_separator(buf, consume_whitespace(buf, mt.pos), proto, mt)
  ELSE IF At(buf, oldpos) # ")"
  THEN [st |-> "fail", pos |-> oldpos, proto |-> proto,
        d |-> mt.d \o <<Diag("badly terminated arg list at column %d.",
                             oldpos + 1)>>]
  ELSE IF Overrun(oldpos) THEN Stopped(InterrAt(oldpos), proto)
  ELSE [st |-> "ok", pos |-> safe_inc_pos(oldpos), proto |-> proto, d |-> mt.d]

parse_args_loop(buf, p, proto) ==
  args_turn(buf, consume_whitespace(buf, p), proto,
            match_type(buf, consume_whitespace(buf, p), VOID_NOTOK))

parse_args(buf, p, proto) ==
  LET p0 == consume_whitespace(buf, p) IN
  IF At(buf, p0) # "("
  THEN [st |-> "fail", pos |-> p0, proto |-> [proto EXCEPT !.nargs = 0],
        d |-> <<Diag("missing '(' at column %d.", p0 + 1)>>]
  ELSE IF Overrun(p0) THEN Stopped(InterrAt(p0), [proto EXCEPT !.nargs = 0])
  ELSE parse_args_loop(buf, safe_inc_pos(p0), [proto EXCEPT !.nargs = 0])

\* The end of parse_prototype: the terminating semicolon and the end of the
\* line.
parse_terminator(buf, p, proto) ==
  LET p0 == consume_whitespace(buf, p)
      p1 == consume_whitespace(buf, safe_inc_pos(p0))
  IN
  IF At(buf, p0) # ";"
  THEN [st |-> "fail", pos |-> p0, proto |-> proto,
        d |-> <<Diag("missing semicolon at column %d.", p0 + 1)>>]
  ELSE IF Overrun(p0) THEN Stopped(InterrAt(p0), proto)
  ELSE IF At(buf, p1) # "\n"
  THEN [st |-> "fail", pos |-> p1, proto |-> proto,
        d |-> <<Diag("garbage at end of line at column %d.", p1 + 1)>>]
  ELSE [st |-> "ok", pos |-> p1, proto |-> proto, d |-> <<>>]

\* parse_prototype after parse_args.
proto_args(buf, pa) ==
  IF pa.st # "ok" THEN pa
  ELSE parse_terminator(buf, pa.pos, pa.proto)

\* parse_prototype on the function name nm, read at p1.
proto_name(buf, p1, proto, rt, nm) ==
  IF nm.st # "ok" THEN Stopped(nm, [proto EXCEPT !.rettype = rt.ti])
  ELSE IF nm.tok = NULL
  THEN [st |-> "fail", pos |-> nm.pos,
        proto |-> [proto EXCEPT !.rettype = rt.ti, !.bifname = NULL],
        d |-> <<Diag("missing function name at column %d.", p1 + 1)>>]
  ELSE proto_args(buf, parse_args(buf, nm.pos,
                                  [proto EXCEPT !.rettype = rt.ti,
                                                !.bifname = nm.tok]))

\* parse_prototype on the return type rt, read at oldpos.
proto_rettype(buf, oldpos, proto, rt) ==
  IF Fatal(rt.st) THEN Stopped(rt, [proto EXCEPT !.rettype = rt.ti])
  ELSE IF rt.st = "fail"
  THEN [st |-> "fail", pos |-> rt.pos, proto |-> [proto EXCEPT !.rettype = rt.ti],
        d |-> rt.d \o <<Diag("missing or badly formed return type at column %d.",
                             oldpos + 1)>>]
  ELSE proto_name(buf, consume_whitespace(buf, rt.pos), proto, rt,
                  match_identifier(buf, consume_whitespace(buf, rt.pos)))

parse_prototype(buf, p, proto) ==
  proto_rettype(buf, consume_whitespace(buf, p), proto,
                match_type(buf, consume_whitespace(buf, p), VOID_OK))

(***************************************************************************)
(* The mangler: construct_fntype_id and its helpers.  An id is the         *)
(* sequence of its characters.                                             *)
(***************************************************************************)
\* The switch on the base type is reached by complete_base_type always and
\* by complete_vector_type for any vector but a pixel vector, which copies
\* "p8hi" without a look at the base type.
BaseHandled(ti) ==
  \/ ti.isvector # 0 /\ ti.ispixel # 0
  \/ ti.base \in BT_CHAR .. BT_FLOAT128

complete_vector_type(ti) ==
  (IF ti.isbool # 0 THEN <<"b">> ELSE <<>>) \o <<"v">> \o
  (IF ti.ispixel # 0 THEN <<"p", "8", "h", "i">>
   ELSE CASE ti.base = BT_CHAR -> <<"1", "6", "q", "i">>
          [] ti.base = BT_SHORT -> <<"8", "h", "i">>
          [] ti.base = BT_INT -> <<"4", "s", "i">>
          [] ti.base = BT_LONGLONG -> <<"2", "d", "i">>
          [] ti.base = BT_FLOAT -> <<"4", "s", "f">>
          [] ti.base = BT_DOUBLE -> <<"2", "d", "f">>
          [] ti.base = BT_INT128 -> <<"1", "t", "i">>
          [] ti.base = BT_FLOAT128 -> <<"1", "t", "f">>
          [] OTHER -> <<>>)

complete_base_type(ti) ==
  CASE ti.base = BT_CHAR -> <<"q", "i">>
    [] ti.base = BT_SHORT -> <<"h", "i">>
    [] ti.base = BT_INT -> <<"s", "i">>
    [] ti.base = BT_LONGLONG -> <<"d", "i">>
    [] ti.base = BT_FLOAT -> <<"s", "f">>
    [] ti.base = BT_DOUBLE -> <<"d", "f">>
    [] ti.base = BT_INT128 -> <<"t", "i">>
    [] ti.base = BT_FLOAT128 -> <<"t", "f">>
    [] OTHER -> <<>>

\* The mode string of a type that is neither void nor a pointer.
mode_fragment(ti) ==
  IF ti.isopaque # 0 THEN <<"o", "p", "a", "q", "u", "e">>
  ELSE (IF ti.isunsigned # 0 THEN <<"u">> ELSE <<>>) \o
       (IF ti.isvector # 0 THEN complete_vector_type(ti)
        ELSE complete_base_type(ti))

ret_fragment(ti) ==
  (IF ti.ispointer # 0 THEN <<"p">> ELSE <<>>) \o
  (IF ti.isvoid # 0 THEN <<"v">> ELSE mode_fragment(ti))

\* An argument mangled the way the return type is, by its pointee.
arg_fragment_m(ti) == <<"_">> \o ret_fragment(ti)

arg_fragment(ti) ==
  <<"_">> \o (IF ti.ispointer # 0 THEN <<"p", "v">> ELSE mode_fragment(ti))

RECURSIVE arg_fragments(_)
arg_fragments(args) ==
  IF args = <<>> THEN <<>>
  ELSE arg_fragment(Head(args)) \o arg_fragments(Tail(args))

\* The types whose mode the mangler asks complete_*_type for.
NeedsMode(ti, isret) ==
  /\ ti.isopaque = 0
  /\ IF isret THEN ti.isvoid = 0 ELSE ti.ispointer = 0

\* The mangler without the "_v" of an empty argument list.
construct_fntype_id_m(proto) ==
  [st |-> "ok",
   id |-> ret_fragment(proto.rettype) \o <<"_", "f", "t", "y", "p", "e">>
          \o arg_fragments(proto.args)]

construct_fntype_id(proto) ==
  IF proto.rettype.ispointer # 0 /\ proto.rettype.isvoid = 0
  THEN [st |-> "abort", id |-> NULL]     \* assert (protoptr->rettype.isvoid)
  ELSE IF \/ NeedsMode(proto.rettype, TRUE) /\ ~BaseHandled(proto.rettype)
          \/ \E i \in 1 .. proto.nargs :
               NeedsMode(proto.args[i], FALSE) /\ ~BaseHandled(proto.args[i])
  THEN [st |-> "interr", id |-> NULL]
  ELSE [st |-> "ok",
        id |-> ret_fragment(proto.rettype)
               \o <<"_", "f", "t", "y", "p", "e">>
               \o (IF proto.nargs = 0 THEN <<"_", "v">>
                   ELSE arg_fragments(proto.args))]

(***************************************************************************)
(* strcmp and the three string sets.  The red-black trees of rbtree.c are  *)
(* modelled by what the generator uses of them: a set of strings with      *)
(* insert-if-absent, lookup and traversal in strcmp order.                 *)
(***************************************************************************)
\* The character codes strcmp compares (ASCII); NUL is 0.
AsciiCode ==
  " " :> 32 @@ "(" :> 40 @@ ")" :> 41 @@ "*" :> 42 @@ "," :> 44 @@ "-" :> 45
  @@ "0" :> 48 @@ "1" :> 49 @@ "2" :> 50 @@ "3" :> 51 @@ "4" :> 52 @@ "5" :> 53
  @@ "6" :> 54 @@ "7" :> 55 @@ "8" :> 56 @@ "9" :> 57 @@ ";" :> 59 @@ "<" :> 60
  @@ ">" :> 62 @@ "A" :> 65 @@ "B" :> 66 @@ "C" :> 67 @@ "D" :> 68 @@ "E" :> 69
  @@ "F" :> 70 @@ "G" :> 71 @@ "H" :> 72 @@ "I" :> 73 @@ "J" :> 74 @@ "K" :> 75
  @@ "L" :> 76 @@ "M" :> 77 @@ "N" :> 78 @@ "O" :> 79 @@ "P" :> 80 @@ "Q" :> 81
  @@ "R" :> 82 @@ "S" :> 83 @@ "T" :> 84 @@ "U" :> 85 @@ "V" :> 86 @@ "W" :> 87
  @@ "X" :> 88 @@ "Y" :> 89 @@ "Z" :> 90 @@ "[" :> 91 @@ "]" :> 93 @@ "_" :> 95
  @@ "a" :> 97 @@ "b" :> 98 @@ "c" :> 99 @@ "d" :> 100 @@ "e" :> 101 @@ "f" :> 102
  @@ "g" :> 103 @@ "h" :> 104 @@ "i" :> 105 @@ "j" :> 106 @@ "k" :> 107 @@ "l" :> 108
  @@ "m" :> 109 @@ "n" :> 110 @@ "o" :> 111 @@ "p" :> 112 @@ "q" :> 113 @@ "r" :> 114
  @@ "s" :> 115 @@ "t" :> 116 @@ "u" :> 117 @@ "v" :> 118 @@ "w" :> 119 @@ "x" :> 120
  @@ "y" :> 121 @@ "z" :> 122 @@ "{" :> 123 @@ "}" :> 125
  @@ "\t" :> 9 @@ "\n" :> 10 @@ "\f" :> 12 @@ "\r" :> 13 @@ "NUL" :> 0

RECURSIVE strcmp(_, _)
strcmp(a, b) ==
  LET ca == IF a = <<>> THEN 0 ELSE AsciiCode[Head(a)]
      cb == IF b = <<>> THEN 0 ELSE AsciiCode[Head(b)]
  IN IF ca # cb THEN (IF ca < cb THEN -1 ELSE 1)
     ELSE IF ca = 0 THEN 0
     ELSE strcmp(Tail(a), Tail(b))

rbt_find(tree, str) == str \in tree
\* rbt_insert returns 1 when the string was inserted, 0 when it was there.
rbt_insert_ok(tree, str) == str \notin tree
rbt_insert(tree, str) == tree \cup {str}

RECURSIVE rbt_inorder(_)
rbt_inorder(tree) ==
  IF tree = {} THEN <<>>
  ELSE LET least == CHOOSE x \in tree : \A y \in tree : strcmp(x, y) <= 0
       IN <<least>> \o rbt_inorder(tree \ {least})

(***************************************************************************)
(* The type map and its lookup.                                            *)
(***************************************************************************)
type_map ==
  <<[key |-> <<"b", "v", "1", "6", "q", "i">>, value |-> "bool_V16QI"],
     [key |-> <<"b", "v", "2", "d", "i">>, value |-> "bool_V2DI"],
     [key |-> <<"b", "v", "4", "s", "i">>, value |-> "bool_V4SI"],
     [key |-> <<"b", "v", "8", "h", "i">>, value |-> "bool_V8HI"],
     [key |-> <<"d", "f">>, value |-> "double"],
     [key |-> <<"d", "i">>, value |-> "intDI"],
     [key |-> <<"h", "i">>, value |-> "intHI"],
     [key |-> <<"o", "p", "a", "q", "u", "e">>, value |-> "opaque_V4SI"],
     [key |-> <<"p", "v">>, value |-> "ptr"],
     [key |-> <<"q", "i">>, value |-> "intQI"],
     [key |-> <<"s", "f">>, value |-> "float"],
     [key |-> <<"s", "i">>, value |-> "intSI"],
     [key |-> <<"t", "f">>, value |-> "long_double"],
     [key |-> <<"t", "i">>, value |-> "intTI"],
     [key |-> <<"u", "d", "i">>, value |-> "unsigned_intDI"],
     [key |-> <<"u", "h", "i">>, value |-> "unsigned_intHI"],
     [key |-> <<"u", "q", "i">>, value |-> "unsigned_intQI"],
     [key |-> <<"u", "s", "i">>, value |-> "unsigned_intSI"],
     [key |-> <<"u", "t", "i">>, value |-> "unsigned_intTI"],
     [key |-> <<"u", "v", "1", "6", "q", "i">>, value |-> "unsigned_V16QI"],
     [key |-> <<"u", "v", "1", "t", "i">>, value |-> "unsigned_V1TI"],
     [key |-> <<"u", "v", "2", "d", "i">>, value |-> "unsigned_V2DI"],
     [key |-> <<"u", "v", "4", "s", "i">>, value |-> "unsigned_V4SI"],
     [key |-> <<"u", "v", "8", "h", "i">>, value |-> "unsigned_V8HI"],
     [key |-> <<"v">>, value |-> "void"],
     [key |-> <<"v", "1", "6", "q", "i">>, value |-> "V16QI"],
     [key |-> <<"v", "1", "t", "i">>, value |-> "V1TI"],
     [key |-> <<"v", "2", "d", "f">>, value |-> "V2DF"],
     [key |-> <<"v", "2", "d", "i">>, value |-> "V2DI"],
     [key |-> <<"v", "4", "s", "f">>, value |-> "V4SF"],
     [key |-> <<"v", "4", "s", "i">>, value |-> "V4SI"],
     [key |-> <<"v", "8", "h", "i">>, value |-> "V8HI"],
     [key |-> <<"v", "p", "8", "h", "i">>, value |-> "pixel_V8HI"]>>

\* The binary search of map_token_to_type_node over type_map[low..high]
\* (zero-based, as in the source).
RECURSIVE type_map_search(_, _, _)
type_map_search(tok, low, high) ==
  LET mid == (low + high) \div 2
      cmp == strcmp(type_map[mid + 1].key, tok)
  IN IF cmp # 0 /\ low < high
     THEN IF cmp < 0
          THEN type_map_search(tok, IF low = mid THEN mid + 1 ELSE mid, high)
          ELSE type_map_search(tok, low, IF high = mid THEN mid - 1 ELSE mid)
     ELSE [low |-> low, high |-> high, mid |-> mid]

map_token_to_type_node(tok) ==
  LET found(r) ==
        IF r.low > r.high THEN [st |-> "interr", node |-> ""]
        ELSE [st |-> "ok", node |-> type_map[r.mid + 1].value]
  IN found(type_map_search(tok, 0, TYPE_MAP_SIZE - 1))

\* strtok (buf, "_"): the non-empty pieces between underscores.
RECURSIVE strtok_all(_, _)
strtok_all(s, cur) ==
  IF s = <<>> THEN (IF cur = <<>> THEN <<>> ELSE <<cur>>)
  ELSE IF Head(s) = "_"
  THEN (IF cur = <<>> THEN <<>> ELSE <<cur>>) \o strtok_all(Tail(s), <<>>)
  ELSE strtok_all(Tail(s), Append(cur, Head(s)))

(***************************************************************************)
(* The attribute list, the stanza headers and the two-line entries.        *)
(***************************************************************************)
\* The attribute names with "mma" among them.
AttrTokens_m ==
  {"init", "set", "extract", "nosoft", "ldvec", "stvec", "reve", "pred",
   "htm", "htmspr", "htmcr", "mma", "no32bit", "cpu", "ldstmask"}

AttrTokens ==
  {"init", "set", "extract", "nosoft", "ldvec", "stvec", "reve", "pred",
   "htm", "htmspr", "htmcr", "no32bit", "cpu", "ldstmask"}

\* The result of parse_bif_attrs when it stops on the failed step r: attrs
\* are the attributes it had set through attrptr by then.
Unfinished(r, attrs) == [st |-> r.st, pos |-> r.pos, attrs |-> attrs, d |-> r.d]

\* One turn of the do-while loop of parse_bif_attrs, and the turns after it.
RECURSIVE parse_bif_attrs_loop(_, _, _)
parse_bif_attrs_loop(buf, p, attrs) ==
  LET oldpos == consume_whitespace(buf, p)
      turn(t) ==
        LET name == Str(t.tok)
            separator(p1) ==
              IF At(buf, p1) = ","
              THEN IF Overrun(p1) THEN Unfinished(InterrAt(p1), attrs \cup {name})
                   ELSE parse_bif_attrs_loop(buf, safe_inc_pos(p1), attrs \cup {name})
              ELSE IF At(buf, p1) # "}"
              THEN [st |-> "fail", pos |-> p1, attrs |-> attrs \cup {name},
                    d |-> <<Diag("arg not followed by ',' or '}' at column %d.",
                                 p1 + 1)>>]
              ELSE parse_bif_attrs_loop(buf, p1, attrs \cup {name})
        IN
        IF t.st # "ok" THEN Unfinished(t, attrs)
        ELSE IF t.tok # NULL
        THEN IF name \notin AttrTokens
             THEN [st |-> "fail", pos |-> t.pos, attrs |-> attrs,
                   d |-> <<Diag("unknown attribute at column %d.", oldpos + 1)>>]
             ELSE separator(consume_whitespace(buf, t.pos))
        ELSE IF At(buf, oldpos) # "}"
        THEN [st |-> "fail", pos |-> oldpos, attrs |-> attrs,
              d |-> <<Diag("badly terminated attr set at column %d.", oldpos + 1)>>]
        ELSE IF Overrun(oldpos) THEN Unfinished(InterrAt(oldpos), attrs)
        ELSE [st |-> "ok", pos |-> safe_inc_pos(oldpos), attrs |-> attrs, d |-> <<>>]
  IN turn(match_identifier(buf, oldpos))

parse_bif_attrs(buf, p) ==
  LET p0 == consume_whitespace(buf, p) IN
  IF At(buf, p0) # "{"
  THEN [st |-> "fail", pos |-> p0, attrs |-> {},
        d |-> <<Diag("missing attribute set at column %d.", p0 + 1)>>]
  ELSE IF Overrun(p0) THEN Unfinished(InterrAt(p0), {})
  ELSE parse_bif_attrs_loop(buf, safe_inc_pos(p0), {})

\* The first statement of parse_bif_entry and of parse_ovld_entry: a line
\* whose first character after whitespace is '[' ends the stanza.
IsStanzaHeader(buf) == At(buf, consume_whitespace(buf, 0)) = "["

\* The test of advance_line for a line to skip: blank, or a comment.
IsSkipped(buf) == At(buf, consume_whitespace(buf, 0)) \in {"\n", ";"}

\* A header parser that takes the name after the first character and tests
\* neither the brackets nor the end of the line.
bif_stanza_header_m(buf, num_stanzas) ==
  LET named(t) ==
        [st |-> IF t.st = "ok" /\ t.tok = NULL THEN "fail" ELSE t.st,
         pos |-> t.pos, name |-> t.tok, d |-> <<>>]
  IN named(match_identifier(buf, consume_whitespace(buf, 0) + 1))

\* The header part of parse_bif_stanza, before its loop over the entries.
\* name is the stanza name stored in bif_stanzas, NULL when none was stored.
bif_stanza_header(buf, num_stanzas) ==
  LET p0 == consume_whitespace(buf, 0)
      ending(t, p1) ==
        IF At(buf, p1) # "\n" /\ p1 # LINELEN - 1
        THEN [st |-> "fail", pos |-> p1, name |-> t.tok,
              d |-> <<Diag("garbage after stanza header.", 0)>>]
        ELSE [st |-> "ok", pos |-> p1, name |-> t.tok, d |-> <<>>]
      named(t) ==
        IF t.st # "ok" THEN [st |-> t.st, pos |-> t.pos, name |-> NULL, d |-> t.d]
        ELSE IF t.tok = NULL
        THEN [st |-> "fail", pos |-> t.pos, name |-> NULL,
              d |-> <<Diag("no identifier found in stanza header.", 0)>>]
        ELSE IF num_stanzas >= MAXBIFSTANZAS
        THEN [st |-> "fail", pos |-> t.pos, name |-> NULL,
              d |-> <<Diag("too many stanza headers.", 0)>>]
        ELSE IF At(buf, t.pos) # "]"
        THEN [st |-> "fail", pos |-> t.pos, name |-> t.tok,
              d |-> <<Diag("ill-formed stanza header at column %d.", t.pos + 1)>>]
        ELSE IF Overrun(t.pos) THEN InterrAt(t.pos) @@ [name |-> t.tok]
        ELSE ending(t, consume_whitespace(buf, safe_inc_pos(t.pos)))
  IN
  IF At(buf, p0) # "["
  THEN [st |-> "fail", pos |-> p0, name |-> NULL,
        d |-> <<Diag("ill-formed stanza header at column %d.", p0 + 1)>>]
  ELSE IF Overrun(p0) THEN InterrAt(p0) @@ [name |-> NULL]
  ELSE named(match_identifier(buf, safe_inc_pos(p0)))

\* The function modifier that may start the first line of a bif entry.
KindTokens == [const |-> FNK_CONST, pure |-> FNK_PURE, fpmath |-> FNK_FPMATH]

\* parse_bif_entry from the first token of line 1 to construct_fntype_id.
bif_entry_line1(buf) ==
  LET oldpos == consume_whitespace(buf, 0)
      typed(kind, pp) ==
        LET mangled(id) ==
              IF id.st # "ok"
              THEN [st |-> id.st, pos |-> pp.pos, kind |-> kind,
                    proto |-> pp.proto, fndecl |-> NULL, d |-> <<>>]
              ELSE [st |-> "ok", pos |-> pp.pos, kind |-> kind, proto |-> pp.proto,
                    fndecl |-> id.id, d |-> <<>>]
        IN
        IF pp.st # "ok"
        THEN [st |-> pp.st, pos |-> pp.pos, kind |-> kind, proto |-> pp.proto,
              fndecl |-> NULL, d |-> pp.d]
        ELSE mangled(construct_fntype_id(pp.proto))
      first(t) ==
        LET tok == Str(t.tok)
            iskind == tok \in DOMAIN KindTokens
        IN
        IF t.st # "ok"
        THEN [st |-> t.st, pos |-> t.pos, kind |-> FNK_NONE, proto |-> ZeroProto,
              fndecl |-> NULL, d |-> t.d]
        ELSE IF t.tok = NULL
        THEN [st |-> "fail", pos |-> t.pos, kind |-> FNK_NONE, proto |-> ZeroProto,
              fndecl |-> NULL,
              d |-> <<Diag("malformed entry at column %d", t.pos + 1)>>]
        ELSE typed(IF iskind THEN KindTokens[tok] ELSE FNK_NONE,
                   parse_prototype(buf, IF iskind THEN t.pos ELSE oldpos, ZeroProto))
  IN first(match_identifier(buf, oldpos))

\* parse_bif_entry with the result of rbt_insert ignored.
bif_id_rejected_m(tree, id) == FALSE

\* The test of parse_bif_entry on the result of rbt_insert (&bif_rbt, id).
bif_id_rejected(tree, id) == ~rbt_insert_ok(tree, id)

\* parse_bif_entry on line 2: the builtin id, the pattern name, the
\* attributes.  idname is NULL when no id was read; inserted tells whether
\* the id went into bif_rbt.
bif_entry_line2(buf, tree) ==
  LET oldpos == consume_whitespace(buf, 0)
      none == [idname |-> NULL, inserted |-> FALSE, patname |-> NULL, attrs |-> {}]
      attributes(got, pat, at) ==
        [st |-> at.st, pos |-> at.pos, patname |-> pat.tok, attrs |-> at.attrs,
         d |-> at.d] @@ got
      pattern(got, pat) ==
        IF pat.st # "ok"
        THEN [st |-> pat.st, pos |-> pat.pos, patname |-> NULL, attrs |-> {},
              d |-> pat.d] @@ got
        ELSE IF pat.tok = NULL
        THEN [st |-> "fail", pos |-> pat.pos, patname |-> NULL, attrs |-> {},
              d |-> <<Diag("missing pattern name at column %d.", pat.pos + 1)>>] @@ got
        ELSE attributes(got, pat, parse_bif_attrs(buf, pat.pos))
      first(id) ==
        IF id.st # "ok" THEN [st |-> id.st, pos |-> id.pos, d |-> id.d] @@ none
        ELSE IF id.tok = NULL
        THEN [st |-> "fail", pos |-> id.pos,
              d |-> <<Diag("missing builtin id at column %d.", id.pos + 1)>>] @@ none
        ELSE IF bif_id_rejected(tree, id.tok)
        THEN [st |-> "fail", pos |-> id.pos, idname |-> id.tok, inserted |-> FALSE,
              patname |-> NULL, attrs |-> {},
              d |-> <<Diag("duplicate function ID '%s' at column %d.", oldpos + 1)>>]
        ELSE pattern([idname |-> id.tok, inserted |-> TRUE],
                     match_identifier(buf, consume_whitespace(buf, id.pos)))
  IN first(match_identifier(buf, oldpos))

ZeroStanza == [stanza_id |-> NULL, extern_name |-> NULL, intern_name |-> NULL]

\* The header part of parse_ovld_stanza, before its loop over the entries.
\* reg tells whether an entry of ovld_stanzas was taken; stanza is what was
\* stored in it.
ovld_stanza_header(buf, num_stanzas) ==
  LET p0 == consume_whitespace(buf, 0)
      no == [reg |-> FALSE, stanza |-> ZeroStanza]
      ending(s3, p5) ==
        IF At(buf, p5) # "\n" /\ p5 # LINELEN - 1
        THEN [st |-> "fail", pos |-> p5, reg |-> TRUE, stanza |-> s3,
              d |-> <<Diag("garbage after stanza header.", 0)>>]
        ELSE [st |-> "ok", pos |-> p5, reg |-> TRUE, stanza |-> s3, d |-> <<>>]
      internal(s2, i) ==
        LET s3 == [s2 EXCEPT !.intern_name = i.tok] IN
        IF i.st # "ok"
        THEN [st |-> i.st, pos |-> i.pos, d |-> i.d, reg |-> TRUE, stanza |-> s2]
        ELSE IF i.tok = NULL
        THEN [st |-> "fail", pos |-> i.pos, reg |-> TRUE, stanza |-> s2,
              d |-> <<Diag("missing internal name at column %d.", i.pos + 1)>>]
        ELSE IF At(buf, i.pos) # "]"
        THEN [st |-> "fail", pos |-> i.pos, reg |-> TRUE, stanza |-> s3,
              d |-> <<Diag("ill-formed stanza header at column %d.", i.pos + 1)>>]
        ELSE IF Overrun(i.pos) THEN InterrAt(i.pos) @@ [reg |-> TRUE, stanza |-> s3]
        ELSE ending(s3, consume_whitespace(buf, safe_inc_pos(i.pos)))
      comma2(s2, p3) ==
        IF At(buf, p3) # ","
        THEN [st |-> "fail", pos |-> p3, reg |-> TRUE, stanza |-> s2,
              d |-> <<Diag("missing comma at column %d.", p3 + 1)>>]
        ELSE IF Overrun(p3) THEN InterrAt(p3) @@ [reg |-> TRUE, stanza |-> s2]
        ELSE internal(s2, match_identifier(buf,
                            consume_whitespace(buf, safe_inc_pos(p3))))
      external(s1, e) ==
        IF e.st # "ok"
        THEN [st |-> e.st, pos |-> e.pos, d |-> e.d, reg |-> TRUE, stanza |-> s1]
        ELSE IF e.tok = NULL
        THEN [st |-> "fail", pos |-> e.pos, reg |-> TRUE, stanza |-> s1,
              d |-> <<Diag("missing external name at column %d.", e.pos + 1)>>]
        ELSE comma2([s1 EXCEPT !.extern_name = e.tok], consume_whitespace(buf, e.pos))
      comma1(s1, p1) ==
        IF At(buf, p1) # ","
        THEN [st |-> "fail", pos |-> p1, reg |-> TRUE, stanza |-> s1,
              d |-> <<Diag("missing comma at column %d.", p1 + 1)>>]
        ELSE IF Overrun(p1) THEN InterrAt(p1) @@ [reg |-> TRUE, stanza |-> s1]
        ELSE external(s1, match_identifier(buf,
                            consume_whitespace(buf, safe_inc_pos(p1))))
      named(t) ==
        IF t.st # "ok" THEN [st |-> t.st, pos |-> t.pos, d |-> t.d] @@ no
        ELSE IF t.tok = NULL
        THEN [st |-> "fail", pos |-> t.pos,
              d |-> <<Diag("no identifier found in stanza header.", 0)>>] @@ no
        ELSE IF num_stanzas >= MAXOVLDSTANZAS
        THEN [st |-> "fail", pos |-> t.pos,
              d |-> <<Diag("too many stanza headers.", 0)>>] @@ no
        ELSE comma1([ZeroStanza EXCEPT !.stanza_id = t.tok],
                    consume_whitespace(buf, t.pos))
  IN
  IF At(buf, p0) # "["
  THEN [st |-> "fail", pos |-> p0,
        d |-> <<Diag("ill-formed stanza header at column %d.", p0 + 1)>>] @@ no
  ELSE IF Overrun(p0) THEN InterrAt(p0) @@ no
  ELSE named(match_identifier(buf, safe_inc_pos(p0)))

\* parse_ovld_entry on line 1: the prototype and its type descriptor id.
ovld_entry_line1(buf) ==
  LET typed(pp) ==
        LET mangled(id) ==
              IF id.st # "ok"
              THEN [st |-> id.st, pos |-> pp.pos, proto |-> pp.proto,
                    fndecl |-> NULL, d |-> <<>>]
              ELSE [st |-> "ok", pos |-> pp.pos, proto |-> pp.proto,
                    fndecl |-> id.id, d |-> <<>>]
        IN
        IF pp.st # "ok"
        THEN [st |-> pp.st, pos |-> pp.pos, proto |-> pp.proto, fndecl |-> NULL,
              d |-> pp.d]
        ELSE mangled(construct_fntype_id(pp.proto))
  IN typed(parse_prototype(buf, consume_whitespace(buf, 0), ZeroProto))

\* The two tests of parse_ovld_entry on the id of line 2.
ovld_id_unknown(biftree, id) == ~rbt_find(biftree, id)
\* parse_ovld_entry with the result of rbt_insert ignored.
ovld_id_rejected_m(tree, id) == FALSE
ovld_id_rejected(tree, id) == ~rbt_insert_ok(tree, id)

\* parse_ovld_entry on line 2: the builtin id and the end of the line.
ovld_entry_line2(buf, biftree, tree) ==
  LET oldpos == consume_whitespace(buf, 0)
      ending(id, p1) ==
        IF At(buf, p1) # "\n"
        THEN [st |-> "fail", pos |-> p1, idname |-> id.tok, inserted |-> TRUE,
              d |-> <<Diag("garbage at end of line at column %d.", p1 + 1)>>]
        ELSE [st |-> "ok", pos |-> p1, idname |-> id.tok, inserted |-> TRUE,
              d |-> <<>>]
      first(id) ==
        IF id.st # "ok"
        THEN [st |-> id.st, pos |-> id.pos, d |-> id.d, idname |-> NULL,
              inserted |-> FALSE]
        ELSE IF id.tok = NULL
        THEN [st |-> "fail", pos |-> id.pos, idname |-> NULL, inserted |-> FALSE,
              d |-> <<Diag("missing overload id at column %d.", id.pos + 1)>>]
        ELSE IF ovld_id_unknown(biftree, id.tok)
        THEN [st |-> "fail", pos |-> id.pos, idname |-> id.tok, inserted |-> FALSE,
              d |-> <<Diag("builtin ID '%s' not found in bif file.", 0)>>]
        ELSE IF ovld_id_rejected(tree, id.tok)
        THEN [st |-> "fail", pos |-> id.pos, idname |-> id.tok, inserted |-> FALSE,
              d |-> <<Diag("duplicate function ID '%s' at column %d.", oldpos + 1)>>]
        ELSE ending(id, consume_whitespace(buf, id.pos))
  IN first(match_identifier(buf, oldpos))

(***************************************************************************)
(* Bounds of the model and the lines the two input files are made of.      *)
(***************************************************************************)
\* The number of lines the two input files hold together.
MaxLines == 8

BifPool ==
  { <<"[", "M", "]", "\n">>,
    <<"i", "n", "t", " ", "f", "(", ")", ";", "\n">>,
    <<"i", "n", "t", " ", "f", "(", ")", "\n">>,
    <<"i", "n", "t", " ", "g", "(", ")", ";", "\n">>,
    <<" ", "A", " ", "p", "{", "}", "\n">>,
    <<"B", " ", "q", " ", "{", "s", "e", "t", "}", "\n">>,
    <<";", "c", "\n">> }

OvldPool ==
  { <<"[", "O", ",", "e", ",", "i", "]", "\n">>,
    <<"[", "P", ",", " ", "x", ",", " ", "y", "]", "\n">>,
    <<"i", "n", "t", " ", "i", "(", ")", ";", "\n">>,
    <<"v", "s", "c", " ", "y", "(", "v", "s", "c", ")", "\n">>,
    <<"A", "\n">>,
    <<" ", "B", "\n">> }

(***************************************************************************)
(* The state of the generator.                                             *)
(***************************************************************************)
VARIABLES
  pc,               \* where main and the parsers stand
  exit_code,        \* the argument of exit, meaningful once pc = "exit"
  diags,            \* the diagnostics printed through (*diag), in order
  bif_text,         \* the lines of the built-in file read so far
  ovld_text,        \* the lines of the overload file read so far
  pending,          \* what fgets left unread of a line longer than linebuf
  linebuf, pos, line,
  bif_stanzas, curr_bif_stanza, bifs, curr_bif,
  ovld_stanzas, curr_ovld_stanza, ovlds, curr_ovld,
  bif_rbt, ovld_rbt, fntype_rbt,
  header_out, init_out, defines_out,  \* the three output files on disk
  tline, tres,      \* the line and the result of the stand-alone parser runs
  pgm_path, bif_path, ovld_path,  \* argv[0], argv[1] and argv[2] as main keeps them
  earlier,          \* what an earlier run on the same files left behind
  table,            \* libnca: the counters of sync_table in shared memory
  table_lock,       \* libnca: the holder of the mutex table_lock, or NoImage
  ipc,              \* libnca: where each image stands in sync_table
  sync_images,      \* libnca: the image list each image passes to sync_table
  sync_calls,       \* libnca: the number of calls each image makes
  entered, returned \* libnca: the calls each image has entered and left

vars ==
  <<pc, exit_code, diags, bif_text, ovld_text, pending, linebuf, pos, line,
    bif_stanzas, curr_bif_stanza, bifs, curr_bif,
    ovld_stanzas, curr_ovld_stanza, ovlds, curr_ovld,
    bif_rbt, ovld_rbt, fntype_rbt, header_out, init_out, defines_out,
    tline, tres, pgm_path, bif_path, ovld_path, earlier,
    table, table_lock, ipc, sync_images, sync_calls, entered, returned>>

scanner_vars == <<linebuf, pos, line, pending>>
bif_vars == <<bif_stanzas, curr_bif_stanza, bifs, curr_bif, bif_rbt>>
ovld_vars == <<ovld_stanzas, curr_ovld_stanza, ovlds, curr_ovld, ovld_rbt>>
out_vars == <<header_out, init_out, defines_out>>
type_vars == <<tline, tres>>
path_vars == <<pgm_path, bif_path, ovld_path>>
sync_vars == <<table, table_lock, ipc, sync_images, sync_calls, entered, returned>>
gen_vars ==
  <<pc, exit_code, diags, bif_text, ovld_text, scanner_vars, bif_vars, ovld_vars,
    fntype_rbt, out_vars, type_vars, path_vars, earlier>>

num_bif_stanzas == Len(bif_stanzas)
num_bifs == Len(bifs)
num_ovld_stanzas == Len(ovld_stanzas)
num_ovlds == Len(ovlds)

ZeroBif ==
  [stanza |-> 0, kind |-> FNK_NONE, proto |-> ZeroProto, idname |-> NULL,
   patname |-> NULL, attrs |-> {}, fndecl |-> NULL]
ZeroOvld ==
  [stanza |-> 0, proto |-> ZeroProto, idname |-> NULL, fndecl |-> NULL,
   lineno |-> 0]

\* Reads of the zero-initialised static tables, by C index.
BifAt(i) == IF i + 1 <= Len(bifs) THEN bifs[i + 1] ELSE ZeroBif
OvldAt(i) == IF i + 1 <= Len(ovlds) THEN ovlds[i + 1] ELSE ZeroOvld
BifStanzaAt(k) == IF k + 1 <= Len(bif_stanzas) THEN bif_stanzas[k + 1] ELSE NULL

NoFile == [exists |-> FALSE, text |-> <<>>]
NewFile == [exists |-> TRUE, text |-> <<>>]

NoResult == [st |-> "none"]

\* libgfortran/nca: the images of a coarray program.  this_image.image_num
\* counts from 0, the image numbers passed to sync_table count from 1.
NumImages == 3
ImageNums == 0 .. (NumImages - 1)
NoImage == -1

\* sync_iface_init: the table of num_images * num_images counters comes from
\* the shared-memory allocator, whose fresh pages read as zero.
shared_malloc(n) == [k \in 0 .. (n - 1) |-> 0]

\* The state of the synchronisation interface while the generator runs: the
\* table is allocated, the mutex is free and no image is inside sync_table.
SyncIdle ==
  /\ table = shared_malloc(NumImages * NumImages)
  /\ table_lock = NoImage
  /\ ipc = [a \in ImageNums |-> [at |-> "idle", i |-> 0]]
  /\ sync_images = [a \in ImageNums |-> <<>>]
  /\ sync_calls = [a \in ImageNums |-> 0]
  /\ entered = [a \in ImageNums |-> 0]
  /\ returned = [a \in ImageNums |-> 0]

\* The command lines of a run: argv[0], argv[1] and argv[2].
CommandLines ==
  { <<<<"g">>, <<"b">>, <<"o">>>>,
    <<<<".", "/", "g">>, <<".", "/", "b">>, <<".", "/", "o">>>> }

\* No run came before this one.
NoRun == [ran |-> FALSE]

\* Before main has read argv the three pointers are null.
Unstarted ==
  pgm_path = NULL /\ bif_path = NULL /\ ovld_path = NULL /\ earlier = NoRun

\* A first run whose main has stored its arguments.
Started ==
  /\ \E argv \in {<<<<"g">>, <<"b">>, <<"o">>>>} :
       pgm_path = argv[1] /\ bif_path = argv[2] /\ ovld_path = argv[3]
  /\ earlier = NoRun

Init ==
  /\ pc = "main"
  /\ exit_code = EC_OK
  /\ diags = <<>>
  /\ bif_text = <<>> /\ ovld_text = <<>> /\ pending = <<>>
  /\ linebuf = <<>> /\ pos = 0 /\ line = 0
  /\ bif_stanzas = <<>> /\ curr_bif_stanza = 0 /\ bifs = <<>> /\ curr_bif = 0
  /\ ovld_stanzas = <<>> /\ curr_ovld_stanza = 0 /\ ovlds = <<>> /\ curr_ovld = 0
  /\ bif_rbt = {} /\ ovld_rbt = {} /\ fntype_rbt = {}
  /\ header_out = NoFile /\ init_out = NoFile /\ defines_out = NoFile
  /\ tline = <<>> /\ tres = NoResult
  /\ SyncIdle
  /\ Unstarted

(***************************************************************************)
(* main: the argument count and the five fopen calls.  Whether a file can  *)
(* be opened is the environment's choice.                                  *)
(***************************************************************************)
Exit(code) == pc' = "exit" /\ exit_code' = code

MainArgs ==
  /\ pc = "main"
  /\ \E argc \in {5, 6} :
       IF argc # 6 THEN Exit(EC_BADARGS) /\ UNCHANGED path_vars
       ELSE /\ pc' = "open_bif" /\ UNCHANGED exit_code
            /\ \E argv \in CommandLines :
                 pgm_path' = argv[1] /\ bif_path' = argv[2] /\ ovld_path' = argv[3]
  /\ UNCHANGED <<diags, bif_text, ovld_text, scanner_vars, bif_vars, ovld_vars,
                 fntype_rbt, out_vars, type_vars>>
  /\ UNCHANGED <<earlier, sync_vars>>

OpenInput(here, code, next) ==
  /\ pc = here
  /\ \E ok \in BOOLEAN :
       IF ok THEN pc' = next /\ UNCHANGED exit_code ELSE Exit(code)
  /\ UNCHANGED <<diags, bif_text, ovld_text, scanner_vars, bif_vars, ovld_vars,
                 fntype_rbt, out_vars, type_vars>>
  /\ UNCHANGED <<path_vars, earlier, sync_vars>>

OpenBif == OpenInput("open_bif", EC_NOBIF, "open_ovld")
OpenOvld == OpenInput("open_ovld", EC_NOOVLD, "open_header")

OpenHeader ==
  /\ pc = "open_header"
  /\ \E ok \in BOOLEAN :
       IF ok THEN pc' = "open_init" /\ header_out' = NewFile /\ UNCHANGED exit_code
       ELSE Exit(EC_NOHDR) /\ UNCHANGED header_out
  /\ UNCHANGED <<diags, bif_text, ovld_text, scanner_vars, bif_vars, ovld_vars,
                 fntype_rbt, init_out, defines_out, type_vars>>
  /\ UNCHANGED <<path_vars, earlier, sync_vars>>

OpenInit ==
  /\ pc = "open_init"
  /\ \E ok \in BOOLEAN :
       IF ok THEN pc' = "open_defines" /\ init_out' = NewFile /\ UNCHANGED exit_code
       ELSE Exit(EC_NOINIT) /\ UNCHANGED init_out
  /\ UNCHANGED <<diags, bif_text, ovld_text, scanner_vars, bif_vars, ovld_vars,
                 fntype_rbt, header_out, defines_out, type_vars>>
  /\ UNCHANGED <<path_vars, earlier, sync_vars>>

\* The last fopen; on success main initialises the three trees and the
\* counters and calls parse_bif.
OpenDefines ==
  /\ pc = "open_defines"
  /\ \E ok \in BOOLEAN :
       IF ok THEN pc' = "parse_bif" /\ defines_out' = NewFile /\ UNCHANGED exit_code
       ELSE Exit(EC_NODEFINES) /\ UNCHANGED defines_out
  /\ UNCHANGED <<diags, bif_text, ovld_text, scanner_vars, bif_vars, ovld_vars,
                 fntype_rbt, header_out, init_out, type_vars>>
  /\ UNCHANGED <<path_vars, earlier, sync_vars>>

(***************************************************************************)
(* Reading lines.  The files are revealed line by line: what fgets returns *)
(* is the environment's choice among the lines of the pool and the end of  *)
(* the file, and bif_text and ovld_text record the lines read.             *)
(***************************************************************************)
\* fgets (linebuf, sizeof (linebuf), file) stores at most LINELEN - 1
\* characters of the line; the rest stays in the stream.
Chunk(ln) == SubSeq(ln, 1, IF Len(ln) <= LINELEN - 1 THEN Len(ln) ELSE LINELEN - 1)
Rest(ln) == SubSeq(ln, Len(Chunk(ln)) + 1, Len(ln))

LinesRead == Len(bif_text) + Len(ovld_text)

Fgets(pool) ==
  IF pending # <<>>
  THEN {[eof |-> FALSE, buf |-> Chunk(pending), rest |-> Rest(pending), new |-> <<>>]}
  ELSE {[eof |-> TRUE, buf |-> linebuf, rest |-> <<>>, new |-> <<>>]}
       \cup (IF LinesRead < MaxLines
             THEN {[eof |-> FALSE, buf |-> Chunk(ln), rest |-> Rest(ln), new |-> <<ln>>] :
                     ln \in pool}
             ELSE {})

\* The body of the loop of advance_line after a successful fgets; the
\* cursor is left by the caller.
Advance(r) == linebuf' = r.buf /\ pending' = r.rest /\ line' = line + 1

(***************************************************************************)
(* How a parser that did not succeed ends the run.                         *)
(***************************************************************************)
\* delete_output_files: fclose and unlink of the three outputs.
delete_output_files ==
  header_out' = NoFile /\ init_out' = NoFile /\ defines_out' = NoFile

\* What bif_diag and ovld_diag put before a message: the file the pointer
\* diag stands for, and the line number.
diag_path == IF pc \in {"parse_bif", "bif_loop", "bif_line2"} THEN "bif" ELSE "ovld"
Report(ds) ==
  [k \in 1 .. Len(ds) |->
     [file |-> diag_path, line |-> line', msg |-> ds[k].msg, col |-> ds[k].col]]

\* main after parse_bif or parse_ovld returned a failure.
ParseFail(code, ds) ==
  /\ diags' = diags \o Report(ds)
  /\ delete_output_files
  /\ Exit(code)

\* "fail": the parser returned its failure code.  "interr": it called
\* exit (EC_INTERR).  "abort": an assertion failed.  "ub": it did something
\* undefined (strcmp on a null pointer); the
\* process is killed, or it carries on into the failure path.
Stop(st, code, ds) ==
  CASE st = "fail" -> ParseFail(code, ds)
    [] st = "interr" ->
         diags' = diags \o Report(ds) /\ Exit(EC_INTERR) /\ UNCHANGED out_vars
    [] st = "abort" ->
         pc' = "abort" /\ diags' = diags \o Report(ds) /\ UNCHANGED <<exit_code, out_vars>>
    [] st = "ub" ->
         \/ pc' = "crash" /\ diags' = diags \o Report(ds) /\ UNCHANGED <<exit_code, out_vars>>
         \/ ParseFail(code, ds)

(***************************************************************************)
(* parse_bif, parse_bif_stanza and parse_bif_entry, one line at a time.    *)
(***************************************************************************)
\* main after parse_bif returned 1: the overload file is parsed next.
ToOvld ==
  /\ pc' = "parse_ovld"
  /\ UNCHANGED <<exit_code, diags, out_vars>>

\* parse_bif_stanza on the header line in buf.
BifHeader(buf) ==
  LET parsed(h) ==
        /\ pos' = h.pos
        /\ bif_stanzas' = IF h.name # NULL THEN Append(bif_stanzas, h.name)
                          ELSE bif_stanzas
        /\ curr_bif_stanza' = IF h.name # NULL THEN num_bif_stanzas
                              ELSE curr_bif_stanza
        /\ UNCHANGED <<bifs, curr_bif, bif_rbt, fntype_rbt>>
        /\ IF h.st = "ok"
           THEN pc' = "bif_loop" /\ UNCHANGED <<exit_code, diags, out_vars>>
           ELSE Stop(h.st, EC_PARSEBIF, h.d)
  IN parsed(bif_stanza_header(buf, num_bif_stanzas))

\* parse_bif: the first advance_line, then the first stanza header.
ParseBifRead(r) ==
  /\ bif_text' = bif_text \o r.new
  /\ IF r.eof
     THEN /\ ToOvld
          /\ line' = 0
          /\ UNCHANGED <<linebuf, pos, pending, bif_vars, fntype_rbt>>
     ELSE /\ Advance(r)
          /\ IF IsSkipped(r.buf)
             THEN /\ pos' = consume_whitespace(r.buf, 0)
                  /\ UNCHANGED <<pc, exit_code, diags, bif_vars, fntype_rbt, out_vars>>
             ELSE BifHeader(r.buf)
  /\ UNCHANGED <<ovld_text, ovld_vars, type_vars>>
  /\ UNCHANGED <<path_vars, earlier, sync_vars>>

ParseBif ==
  /\ pc = "parse_bif"
  /\ \E r \in Fgets(BifPool) : ParseBifRead(r)

\* parse_bif_entry on line 1 of an entry: the table entry is taken, then
\* the modifier and the prototype are parsed and the type id is stored.
BifEntryLine1(buf) ==
  IF num_bifs >= MAXBIFS - 1
  THEN /\ ParseFail(EC_PARSEBIF, <<Diag("too many built-in functions.", 0)>>)
       /\ pos' = consume_whitespace(buf, 0)
       /\ UNCHANGED <<bif_vars, fntype_rbt>>
  ELSE
  LET parsed(e) ==
        /\ pos' = e.pos
        /\ curr_bif' = num_bifs
        /\ bifs' = Append(bifs,
                          [ZeroBif EXCEPT !.stanza = curr_bif_stanza,
                                          !.kind = e.kind, !.proto = e.proto,
                                          !.fndecl = e.fndecl])
        /\ fntype_rbt' = IF e.st = "ok" THEN rbt_insert(fntype_rbt, e.fndecl)
                         ELSE fntype_rbt
        /\ UNCHANGED <<bif_stanzas, curr_bif_stanza, bif_rbt>>
        /\ IF e.st = "ok"
           THEN pc' = "bif_line2" /\ UNCHANGED <<exit_code, diags, out_vars>>
           ELSE Stop(e.st, EC_PARSEBIF, e.d)
  IN parsed(bif_entry_line1(buf))

\* The loop of parse_bif_stanza: advance_line, then parse_bif_entry on the
\* line; a line starting with '[' ends the stanza and parse_bif hands the
\* same line to parse_bif_stanza as the next header.
BifLoopRead(r) ==
  /\ bif_text' = bif_text \o r.new
  /\ IF r.eof
     THEN /\ ToOvld
          /\ line' = 0
          /\ UNCHANGED <<linebuf, pos, pending, bif_vars, fntype_rbt>>
     ELSE /\ Advance(r)
          /\ IF IsSkipped(r.buf)
             THEN /\ pos' = consume_whitespace(r.buf, 0)
                  /\ UNCHANGED <<pc, exit_code, diags, bif_vars, fntype_rbt, out_vars>>
             ELSE IF IsStanzaHeader(r.buf)
             THEN BifHeader(r.buf)
             ELSE BifEntryLine1(r.buf)
  /\ UNCHANGED <<ovld_text, ovld_vars, type_vars>>
  /\ UNCHANGED <<path_vars, earlier, sync_vars>>

BifLoop ==
  /\ pc = "bif_loop"
  /\ \E r \in Fgets(BifPool) : BifLoopRead(r)

\* parse_bif_entry from "Now process line 2" on.
BifLine2Read(r) ==
  /\ bif_text' = bif_text \o r.new
  /\ IF r.eof
     THEN /\ UNCHANGED <<scanner_vars, bif_vars>>
          /\ ParseFail(EC_PARSEBIF, <<Diag("unexpected EOF.", 0)>>)
     ELSE /\ Advance(r)
          /\ IF IsSkipped(r.buf)
             THEN /\ pos' = consume_whitespace(r.buf, 0)
                  /\ UNCHANGED <<pc, exit_code, diags, bif_vars, out_vars>>
             ELSE
             LET old == bifs[Len(bifs)]
                 parsed(l2) ==
                   /\ pos' = l2.pos
                   /\ bifs' = [bifs EXCEPT ![Len(bifs)] =
                                 [old EXCEPT !.idname = l2.idname,
                                             !.patname = l2.patname,
                                             !.attrs = l2.attrs]]
                   /\ bif_rbt' = IF l2.inserted
                                 THEN rbt_insert(bif_rbt, l2.idname)
                                 ELSE bif_rbt
                   /\ UNCHANGED <<bif_stanzas, curr_bif_stanza, curr_bif>>
                   /\ IF l2.st = "ok"
                      THEN /\ pc' = "bif_loop"
                           /\ UNCHANGED <<exit_code, diags, out_vars>>
                      ELSE Stop(l2.st, EC_PARSEBIF, l2.d)
             IN parsed(bif_entry_line2(r.buf, bif_rbt))
  /\ UNCHANGED <<ovld_text, ovld_vars, fntype_rbt, type_vars>>
  /\ UNCHANGED <<path_vars, earlier, sync_vars>>

BifLine2 ==
  /\ pc = "bif_line2"
  /\ \E r \in Fgets(BifPool) : BifLine2Read(r)

(***************************************************************************)
(* parse_ovld, parse_ovld_stanza and parse_ovld_entry, one line at a time. *)
(***************************************************************************)
\* main after parse_ovld returned 1: the output files are written next.
ToWrite ==
  /\ pc' = "write_header"
  /\ UNCHANGED <<exit_code, out_vars>>

\* What parse_ovld_entry returns when the file ends before line 2.
ovld_entry_eof_result == 0

\* What the test "while (result != 2)" of parse_ovld_stanza reads: the
\* result declared before the loop, which stays 1; the value returned by
\* parse_ovld_entry goes to the result declared inside the loop.
stanza_loop_result(entry_result) == 1

\* What parse_ovld_stanza returns from inside its loop for a result of
\* parse_ovld_entry other than 1 and 2.
ovld_stanza_result(entry_result) == IF entry_result = 0 THEN 0 ELSE 6

\* What parse_ovld returns once parse_ovld_stanza returned other than 1.
parse_ovld_result(stanza_result) == IF stanza_result = 0 THEN 1 ELSE stanza_result

\* parse_ovld_stanza on the header line in buf.
OvldHeader(buf) ==
  LET parsed(h) ==
        /\ pos' = h.pos
        /\ ovld_stanzas' = IF h.reg THEN Append(ovld_stanzas, h.stanza)
                           ELSE ovld_stanzas
        /\ curr_ovld_stanza' = IF h.reg THEN num_ovld_stanzas ELSE curr_ovld_stanza
        /\ UNCHANGED <<ovlds, curr_ovld, ovld_rbt, fntype_rbt>>
        /\ IF h.st = "ok"
           THEN pc' = "ovld_loop" /\ UNCHANGED <<exit_code, diags, out_vars>>
           ELSE Stop(h.st, EC_PARSEOVLD, h.d)
  IN parsed(ovld_stanza_header(buf, num_ovld_stanzas))

\* The loop of parse_ovld: advance_line, then parse_ovld_stanza on the line.
ParseOvldRead(r) ==
  /\ ovld_text' = ovld_text \o r.new
  /\ IF r.eof
     THEN /\ ToWrite
          /\ UNCHANGED <<diags, scanner_vars, ovld_vars, fntype_rbt>>
     ELSE /\ Advance(r)
          /\ IF IsSkipped(r.buf)
             THEN /\ pos' = consume_whitespace(r.buf, 0)
                  /\ UNCHANGED <<pc, exit_code, diags, ovld_vars, fntype_rbt, out_vars>>
             ELSE OvldHeader(r.buf)
  /\ UNCHANGED <<bif_text, bif_vars, type_vars>>
  /\ UNCHANGED <<path_vars, earlier, sync_vars>>

ParseOvld ==
  /\ pc = "parse_ovld"
  /\ \E r \in Fgets(OvldPool) : ParseOvldRead(r)

\* parse_ovld_entry on line 1 of an entry.
OvldEntryLine1(buf) ==
  IF num_ovlds >= MAXOVLDS - 1
  THEN /\ ParseFail(EC_PARSEOVLD, <<Diag("too many overloads.", 0)>>)
       /\ pos' = consume_whitespace(buf, 0)
       /\ UNCHANGED <<ovld_vars, fntype_rbt>>
  ELSE
  LET parsed(e) ==
        /\ pos' = e.pos
        /\ curr_ovld' = num_ovlds
        /\ ovlds' = Append(ovlds,
                           [ZeroOvld EXCEPT !.stanza = curr_ovld_stanza,
                                            !.proto = e.proto,
                                            !.fndecl = e.fndecl,
                                            !.lineno = line + 1])
        /\ fntype_rbt' = IF e.st = "ok" THEN rbt_insert(fntype_rbt, e.fndecl)
                         ELSE fntype_rbt
        /\ UNCHANGED <<ovld_stanzas, curr_ovld_stanza, ovld_rbt>>
        /\ IF e.st = "ok"
           THEN pc' = "ovld_line2" /\ UNCHANGED <<exit_code, diags, out_vars>>
           ELSE Stop(e.st, EC_PARSEOVLD, e.d)
  IN parsed(ovld_entry_line1(buf))

\* The loop of parse_ovld_stanza.  On a line starting with '[' the entry
\* parser returns 2; the stanza ends, and parse_ovld reads on, only if the
\* loop test sees that 2.
OvldLoopRead(r) ==
  /\ ovld_text' = ovld_text \o r.new
  /\ IF r.eof
     THEN /\ ToWrite
          /\ UNCHANGED <<diags, scanner_vars, ovld_vars, fntype_rbt>>
     ELSE /\ Advance(r)
          /\ IF IsSkipped(r.buf)
             THEN /\ pos' = consume_whitespace(r.buf, 0)
                  /\ UNCHANGED <<pc, exit_code, diags, ovld_vars, fntype_rbt, out_vars>>
             ELSE IF IsStanzaHeader(r.buf)
             THEN /\ pos' = consume_whitespace(r.buf, 0)
                  /\ pc' = IF stanza_loop_result(2) # 2 THEN "ovld_loop"
                           ELSE "parse_ovld"
                  /\ UNCHANGED <<exit_code, diags, ovld_vars, fntype_rbt, out_vars>>
             ELSE OvldEntryLine1(r.buf)
  /\ UNCHANGED <<bif_text, bif_vars, type_vars>>
  /\ UNCHANGED <<path_vars, earlier, sync_vars>>

OvldLoop ==
  /\ pc = "ovld_loop"
  /\ \E r \in Fgets(OvldPool) : OvldLoopRead(r)

\* parse_ovld_entry from "Now process line 2" on.
OvldLine2Read(r) ==
  /\ ovld_text' = ovld_text \o r.new
  /\ IF r.eof
     THEN LET res == parse_ovld_result(ovld_stanza_result(ovld_entry_eof_result))
              ds == <<Diag("unexpected EOF.", 0)>>
          IN
          /\ UNCHANGED <<scanner_vars, ovld_vars>>
          /\ IF res = 1
             THEN ToWrite /\ diags' = diags \o Report(ds)
             ELSE ParseFail(EC_PARSEOVLD, ds)
     ELSE /\ Advance(r)
          /\ IF IsSkipped(r.buf)
             THEN /\ pos' = consume_whitespace(r.buf, 0)
                  /\ UNCHANGED <<pc, exit_code, diags, ovld_vars, out_vars>>
             ELSE
             LET old == ovlds[Len(ovlds)]
                 parsed(l2) ==
                   /\ pos' = l2.pos
                   /\ ovlds' = [ovlds EXCEPT ![Len(ovlds)] =
                                  [old EXCEPT !.idname = l2.idname]]
                   /\ ovld_rbt' = IF l2.inserted
                                  THEN rbt_insert(ovld_rbt, l2.idname)
                                  ELSE ovld_rbt
                   /\ UNCHANGED <<ovld_stanzas, curr_ovld_stanza, curr_ovld>>
                   /\ IF l2.st = "ok"
                      THEN /\ pc' = "ovld_loop"
                           /\ UNCHANGED <<exit_code, diags, out_vars>>
                      ELSE Stop(l2.st, EC_PARSEOVLD, l2.d)
             IN parsed(ovld_entry_line2(r.buf, bif_rbt, ovld_rbt))
  /\ UNCHANGED <<bif_text, bif_vars, fntype_rbt, type_vars>>
  /\ UNCHANGED <<path_vars, earlier, sync_vars>>

OvldLine2 ==
  /\ pc = "ovld_line2"
  /\ \E r \in Fgets(OvldPool) : OvldLine2Read(r)

(***************************************************************************)
(* The writers.  An output file is the sequence of the items written to    *)
(* it: one item for each enumerator, declaration, initialiser, table block *)
(* or alias line, in the order of the fprintf calls.                       *)
(***************************************************************************)
Item(kind, name, data) == [kind |-> kind, name |-> name, data |-> data]

RECURSIVE Items(_, _)
Items(kind, names) ==
  IF names = <<>> THEN <<>>
  ELSE <<Item(kind, Head(names), <<>>)>> \o Items(kind, Tail(names))

\* The prefixes write_bif_enum and write_ovld_enum print before an id, and the
\* enumerators write_decls prints around the ids.
BIF_PREFIX == <<"R", "S", "6", "0", "0", "0", "_", "B", "I", "F", "_">>
OVLD_PREFIX == <<"R", "S", "6", "0", "0", "0", "_", "O", "V", "L", "D", "_">>
ENUM_NONE == <<"N", "O", "N", "E">>
ENUM_MAX == <<"M", "A", "X">>

\* The enumerators "  <prefix><id>," of one tree, in its order.
RECURSIVE write_enum(_, _, _)
write_enum(kind, prefix, names) ==
  IF names = <<>> THEN <<>>
  ELSE <<Item(kind, prefix \o Head(names), <<>>)>>
       \o write_enum(kind, prefix, Tail(names))

\* write_autogenerated_header: the comment at the top of the header and of
\* the init file, which quotes the program and the two input files by the
\* names the command line gave them.
write_autogenerated_header ==
  Item("autogenerated", pgm_path, [bif |-> bif_path, ovld |-> ovld_path])

\* write_decls with the overload enumeration starting at zero.
write_decls_m ==
  <<Item("bif_enum", BIF_PREFIX \o ENUM_NONE, <<>>)>>
  \o write_enum("bif_enum", BIF_PREFIX, rbt_inorder(bif_rbt))
  \o <<Item("bif_enum", BIF_PREFIX \o ENUM_MAX, <<>>)>>
  \o <<Item("ovld_enum", OVLD_PREFIX \o ENUM_NONE, <<>>)>>
  \o write_enum("ovld_enum", OVLD_PREFIX, rbt_inorder(ovld_rbt))
  \o <<Item("ovld_enum", OVLD_PREFIX \o ENUM_MAX, <<>>)>>

\* write_decls: the two enumerations, each in the order of its tree between
\* its enumerators NONE and MAX.  The data of an enumerator is its
\* initialiser: RS6000_OVLD_NONE = RS6000_BIF_MAX + 1.
write_decls ==
  <<Item("bif_enum", BIF_PREFIX \o ENUM_NONE, <<>>)>>
  \o write_enum("bif_enum", BIF_PREFIX, rbt_inorder(bif_rbt))
  \o <<Item("bif_enum", BIF_PREFIX \o ENUM_MAX, <<>>)>>
  \o <<Item("ovld_enum", OVLD_PREFIX \o ENUM_NONE,
             <<BIF_PREFIX \o ENUM_MAX, 1>>)>>
  \o write_enum("ovld_enum", OVLD_PREFIX, rbt_inorder(ovld_rbt))
  \o <<Item("ovld_enum", OVLD_PREFIX \o ENUM_MAX, <<>>)>>

\* The header with one type declaration for each entry, repeated ids
\* included.
write_header_file_m ==
  <<write_autogenerated_header>>
  \o write_decls
  \o Items("extern_fntype", [i \in 1 .. Len(bifs) |-> bifs[i].fndecl])
  \o Items("extern_fntype", [i \in 1 .. Len(ovlds) |-> ovlds[i].fndecl])

\* write_header_file (it always returns 1) and the fclose after it.
write_header_file ==
  <<write_autogenerated_header>>
    \o write_decls \o Items("extern_fntype", rbt_inorder(fntype_rbt))

\* The header written in the order of a container without one: the items
\* first to last or last to first.
WriteHeader_m ==
  /\ pc = "write_header"
  /\ \E back \in BOOLEAN :
       header_out' =
         [header_out EXCEPT
            !.text = IF back
                     THEN [k \in 1 .. Len(write_header_file) |->
                             write_header_file[Len(write_header_file) + 1 - k]]
                     ELSE write_header_file]
  /\ pc' = "write_init"
  /\ UNCHANGED <<exit_code, diags, bif_text, ovld_text, scanner_vars, bif_vars,
                 ovld_vars, fntype_rbt, init_out, defines_out, type_vars>>
  /\ UNCHANGED <<path_vars, earlier, sync_vars>>

WriteHeader ==
  /\ pc = "write_header"
  /\ header_out' = [header_out EXCEPT !.text = write_header_file]
  /\ pc' = "write_init"
  /\ UNCHANGED <<exit_code, diags, bif_text, ovld_text, scanner_vars, bif_vars,
                 ovld_vars, fntype_rbt, init_out, defines_out, type_vars>>
  /\ UNCHANGED <<path_vars, earlier, sync_vars>>

\* The tokens of a type id that write_fntype_init hands to write_type_node:
\* the first, and those after "ftype" up to a token "v".
RECURSIVE args_until_v(_)
args_until_v(toks) ==
  IF toks = <<>> \/ Head(toks) = <<"v">> THEN <<>>
  ELSE <<Head(toks)>> \o args_until_v(Tail(toks))

\* The tokens of a type id that write_fntype_init hands to write_type_node,
\* in order: the first; none after it when the second is missing or is not
\* "ftype" (the two assertions); else those after "ftype" up to a token "v".
looked_up(toks) ==
  IF toks = <<>> THEN <<>>
  ELSE IF Len(toks) < 2 \/ toks[2] # <<"f", "t", "y", "p", "e">>
  THEN <<toks[1]>>
  ELSE <<toks[1]>> \o args_until_v(SubSeq(toks, 3, Len(toks)))

\* write_fntype_init: the first token is mapped before the two assertions
\* are tested.  st is "ub" when strtok finds no token at all and the null
\* pointer reaches strcmp in map_token_to_type_node, "abort" when one of
\* the assertions fails, "interr" when map_token_to_type_node exits.
write_fntype_init(str) ==
  LET none == Item("fntype_init", str, <<>>)
      mapped(nodes) ==
        IF \E k \in 1 .. Len(nodes) : nodes[k].st # "ok"
        THEN [st |-> "interr", item |-> none]
        ELSE [st |-> "ok",
              item |-> Item("fntype_init", str,
                            [k \in 1 .. Len(nodes) |-> nodes[k].node])]
      written(used) ==
        mapped([k \in 1 .. Len(used) |-> map_token_to_type_node(used[k])])
      split(toks) ==
        IF toks = <<>> THEN [st |-> "ub", item |-> none]
        ELSE IF map_token_to_type_node(toks[1]).st # "ok"
        THEN [st |-> "interr", item |-> none]
        ELSE IF Len(toks) < 2 \/ toks[2] # <<"f", "t", "y", "p", "e">>
        THEN [st |-> "abort", item |-> none]
        ELSE written(looked_up(toks))
  IN split(strtok_all(str, <<>>))

\* The test of write_init_bif_table that chooses the guard of a block.
bif_guard(bif_mask) ==
  IF Str(bif_mask) # "MASK_ALTIVEC" /\ Str(bif_mask) # "MASK_VSX"
  THEN "(mask & builtin_mask) != mask"
  ELSE "TARGET_EXTRA_BUILTINS || (mask & builtin_mask) == mask"

restr_name(restr) ==
  CASE restr = RES_BITS -> "RES_BITS"
    [] restr = RES_RANGE -> "RES_RANGE"
    [] restr = RES_VALUES -> "RES_VALUES"
    [] restr = RES_VAR_RANGE -> "RES_VAR_RANGE"
    [] OTHER -> "ERROR"

\* One turn of the loop of write_init_bif_table, for entry i.
bif_block(i) ==
  LET b == BifAt(i)
      bif_mask == BifStanzaAt(b.stanza)
  IN Item("bif", b.idname,
          [bifname |-> b.proto.bifname, mask |-> bif_mask, fntype |-> b.fndecl,
           nargs |-> b.proto.nargs, icode |-> b.patname, bifattrs |-> b.attrs,
           restr_opnd |-> b.proto.restr_opnd,
           restr |-> IF b.proto.restr_opnd # 0
                     THEN <<restr_name(b.proto.restr), b.proto.restr_val1,
                            b.proto.restr_val2>>
                     ELSE <<>>,
           guard |-> IF bif_mask = NULL THEN "" ELSE bif_guard(bif_mask),
           fnkind |-> b.kind])

\* write_init_bif_table: its loop runs for i = 0 .. curr_bif.
write_init_bif_table == [k \in 1 .. curr_bif + 1 |-> bif_block(k - 1)]

\* One turn of the loop of write_init_ovld_table, for entry i.  next holds
\* the id the chain pointer names, or nothing for NULL; hashed tells
\* whether the entry is put into the hash table.
ovld_block(i) ==
  LET o == OvldAt(i) IN
  Item("ovld", o.idname,
       [bifname |-> o.proto.bifname, bifid |-> o.idname, fntype |-> o.fndecl,
        next |-> IF i < curr_ovld /\ OvldAt(i + 1).proto.bifname = o.proto.bifname
                 THEN <<OvldAt(i + 1).idname>> ELSE <<>>,
        hashed |-> (i = 0 \/ o.stanza # OvldAt(i - 1).stanza)])

\* write_init_ovld_table: its loop runs for i = 0 .. curr_ovld.
write_init_ovld_table == [k \in 1 .. curr_ovld + 1 |-> ovld_block(k - 1)]

\* The first part of write_init_file: the type declarations and their
\* initialisers, in the order of fntype_rbt.
fntype_inits ==
  LET each(ids) == [k \in 1 .. Len(ids) |-> write_fntype_init(ids[k])]
  IN each(rbt_inorder(fntype_rbt))

\* Undefined in write_init_bif_table: strcmp on a stanza name that is a
\* null pointer.  The generator is killed there.
BifTableNullMask == \E i \in 0 .. curr_bif : BifStanzaAt(BifAt(i).stanza) = NULL

\* Undefined in the two table writers: a null pointer printed through %s.
\* The C library prints "(null)", or the generator is killed.
TablesPrintNull ==
  \/ \E i \in 0 .. curr_bif : BifAt(i).idname = NULL
  \/ \E i \in 0 .. curr_ovld : OvldAt(i).idname = NULL

\* What a file holds of the text printed to it when the process is killed
\* before fclose: the buffer of the stream is lost, and the file keeps the
\* part of the text that had left the buffer, here the items that did so
\* whole.  The text of a short run has not left the buffer at all.
Killed(printed) == {SubSeq(printed, 1, k) : k \in 0 .. Len(printed)}

\* write_init_file (it returns 1 when it returns) and the fclose after it.
\* exit writes the buffer of init_file out; abort and a signal do not.
WriteInit ==
  /\ pc = "write_init"
  /\ LET written(inits, decls) ==
           LET bad == {k \in 1 .. Len(inits) : inits[k].st # "ok"}
               initems == [k \in 1 .. Len(inits) |-> inits[k].item]
               dies(at, printed) ==
                 /\ \E kept \in Killed(printed) :
                      init_out' = [init_out EXCEPT !.text = kept]
                 /\ pc' = at /\ UNCHANGED exit_code
               stopped(k) ==
                 CASE inits[k].st = "abort" ->
                        dies("abort", decls \o SubSeq(initems, 1, k - 1))
                   [] inits[k].st = "ub" ->
                        dies("crash", decls \o SubSeq(initems, 1, k - 1))
                   [] OTHER ->
                        /\ init_out' = [init_out EXCEPT
                                          !.text = decls \o SubSeq(initems, 1, k - 1)]
                        /\ Exit(EC_INTERR)
               tables(typed) ==
                 IF BifTableNullMask
                 THEN dies("crash", typed)
                 ELSE \/ /\ init_out' = [init_out EXCEPT
                                           !.text = typed \o write_init_bif_table
                                                    \o write_init_ovld_table]
                         /\ pc' = "write_defines" /\ UNCHANGED exit_code
                      \/ /\ TablesPrintNull
                         /\ dies("crash", typed)
           IN
           IF bad # {} THEN stopped(CHOOSE j \in bad : \A m \in bad : j <= m)
           ELSE tables(decls \o initems)
     IN written(fntype_inits,
                <<write_autogenerated_header>>
                  \o Items("fntype", rbt_inorder(fntype_rbt)))
  /\ UNCHANGED <<diags, bif_text, ovld_text, scanner_vars, bif_vars, ovld_vars,
                 fntype_rbt, header_out, defines_out, type_vars>>
  /\ UNCHANGED <<path_vars, earlier, sync_vars>>

\* write_defines_file: one line "#define extern_name intern_name" for each
\* registered stanza, in the order of ovld_stanzas.
write_defines_file ==
  [i \in 1 .. num_ovld_stanzas |->
     Item("define", ovld_stanzas[i].extern_name, ovld_stanzas[i].intern_name)]

\* write_defines_file (it always returns 1), fclose, and return EC_OK.
WriteDefines ==
  /\ pc = "write_defines"
  /\ defines_out' = [defines_out EXCEPT !.text = write_defines_file]
  /\ Exit(EC_OK)
  /\ UNCHANGED <<diags, bif_text, ovld_text, scanner_vars, bif_vars, ovld_vars,
                 fntype_rbt, header_out, init_out, type_vars>>
  /\ UNCHANGED <<path_vars, earlier, sync_vars>>

Next ==
  \/ MainArgs \/ OpenBif \/ OpenOvld \/ OpenHeader \/ OpenInit \/ OpenDefines
  \/ ParseBif \/ BifLoop \/ BifLine2
  \/ ParseOvld \/ OvldLoop \/ OvldLine2
  \/ WriteHeader \/ WriteInit \/ WriteDefines

Spec == Init /\ [][Next]_vars

(***************************************************************************)
(* Properties of a run of the generator.                                   *)
(***************************************************************************)
\* C1: a built-in file in which two entries carry the same id is not
\* accepted.  Whenever two entries of bifs hold the same id, the run has
\* ended with EC_PARSEBIF, nothing was generated and no output file is left.
C1_DuplicateBifIdFails ==
  (\E i, j \in 1 .. Len(bifs) :
     i < j /\ bifs[i].idname # NULL /\ bifs[i].idname = bifs[j].idname)
  => /\ pc = "exit" /\ exit_code = EC_PARSEBIF
     /\ ~header_out.exists /\ ~init_out.exists /\ ~defines_out.exists

\* C1: the second of two entries of the built-in file repeated the id of the
\* first, and the run ended with EC_PARSEBIF.
C1_Witness ==
  /\ Len(bifs) = 2
  /\ bifs[1].idname # NULL /\ bifs[1].idname = bifs[2].idname
  /\ bifs[1].idname \in bif_rbt
  /\ pc = "exit" /\ exit_code = EC_PARSEBIF

\* C2: an overload entry whose id is not an id of the built-in file ends the
\* run with EC_PARSEOVLD, and so every overload entry of a run that goes on
\* to write its output files names an id of the built-in file.
C2_ReferentialIntegrity ==
  /\ \A i \in 1 .. Len(ovlds) :
       (ovlds[i].idname # NULL /\ ~rbt_find(bif_rbt, ovlds[i].idname))
       => pc = "exit" /\ exit_code = EC_PARSEOVLD
  /\ (pc \in {"write_header", "write_init", "write_defines"}
      \/ (pc = "exit" /\ exit_code = EC_OK))
     => \A i \in 1 .. Len(ovlds) : rbt_find(bif_rbt, ovlds[i].idname)

\* C3: an overload file in which two entries carry the same id is not
\* accepted.  Whenever two entries of ovlds hold the same id, the run has
\* ended with EC_PARSEOVLD and no output file is left.
C3_DuplicateOvldIdFails ==
  (\E i, j \in 1 .. Len(ovlds) :
     i < j /\ ovlds[i].idname # NULL /\ ovlds[i].idname = ovlds[j].idname)
  => /\ pc = "exit" /\ exit_code = EC_PARSEOVLD
     /\ ~header_out.exists /\ ~init_out.exists /\ ~defines_out.exists

\* C3: the second of two overload entries repeated the id of the first, an
\* id of the built-in file, and the run ended with EC_PARSEOVLD.
C3_Witness ==
  /\ Len(ovlds) = 2
  /\ ovlds[1].idname # NULL /\ ovlds[1].idname = ovlds[2].idname
  /\ ovlds[1].idname \in bif_rbt /\ ovlds[1].idname \in ovld_rbt
  /\ pc = "exit" /\ exit_code = EC_PARSEOVLD

\* C4: the output files are all there or none is.  When the process has
\* exited, the three output files exist if the exit code is EC_OK, and none
\* of them exists if it is a failure code.
C4_AllOrNothing ==
  pc = "exit" =>
    IF exit_code = EC_OK
    THEN header_out.exists /\ init_out.exists /\ defines_out.exists
    ELSE ~header_out.exists /\ ~init_out.exists /\ ~defines_out.exists

\* C5: the first grammar violation is fatal at once.  Once a diagnostic was
\* printed for a line of an input file, the process has exited with the
\* parse-failure code of that file, no output file is left, and every
\* diagnostic names the last line read.
C5_FirstViolationFatal ==
  \A k \in 1 .. Len(diags) :
    /\ pc = "exit"
    /\ exit_code = (IF diags[k].file = "bif" THEN EC_PARSEBIF ELSE EC_PARSEOVLD)
    /\ ~header_out.exists /\ ~init_out.exists /\ ~defines_out.exists
    /\ diags[k].line = line

\* C6: the end of a file between the two lines of an entry is a parse
\* failure.  A run that goes on to write its output files holds no entry
\* without an id, and a run that printed "unexpected EOF." has exited with
\* the parse-failure code of the file it was reading.
C6_EofMidEntryFails ==
  /\ (pc \in {"write_header", "write_init", "write_defines"}
      \/ (pc = "exit" /\ exit_code = EC_OK))
     => /\ \A i \in 1 .. Len(bifs) : bifs[i].idname # NULL
        /\ \A i \in 1 .. Len(ovlds) : ovlds[i].idname # NULL
  /\ \A k \in 1 .. Len(diags) :
       diags[k].msg = "unexpected EOF."
       => /\ pc = "exit"
          /\ exit_code = (IF diags[k].file = "bif" THEN EC_PARSEBIF
                          ELSE EC_PARSEOVLD)

\* C7: every line of the overload file that starts with '[' is parsed as a
\* stanza header.  While the entries of the overload file are being read,
\* there are as many registered stanzas as header lines were read, and each
\* entry belongs to the stanza of the last header line before it.
C7_EveryHeaderParsed ==
  pc \in {"ovld_loop", "ovld_line2"} =>
    /\ num_ovld_stanzas = Len(SelectSeq(ovld_text, IsStanzaHeader))
    /\ \A i \in 1 .. Len(ovlds) :
         ovlds[i].stanza + 1 =
           Len(SelectSeq(SubSeq(ovld_text, 1, ovlds[i].lineno), IsStanzaHeader))

\* C8: the defines file holds one line for each stanza header of the
\* overload file, in the order of the file.  After a successful run it has
\* as many lines as header lines were read, the i-th with the external and
\* the internal name of the i-th header.
C8_OneDefinePerHeader ==
  (pc = "exit" /\ exit_code = EC_OK) =>
    /\ Len(defines_out.text) = Len(SelectSeq(ovld_text, IsStanzaHeader))
    /\ \A i \in 1 .. Len(defines_out.text) :
         /\ defines_out.text[i].name =
              ovld_stanza_header(SelectSeq(ovld_text, IsStanzaHeader)[i], 0)
                .stanza.extern_name
         /\ defines_out.text[i].data =
              ovld_stanza_header(SelectSeq(ovld_text, IsStanzaHeader)[i], 0)
                .stanza.intern_name

(***************************************************************************)
(* The prototype parser on its own: one prototype line with a restricted   *)
(* "const int" argument is drawn, and parse_prototype is applied to it as  *)
(* parse_ovld_entry applies it.                                            *)
(***************************************************************************)
\* The restriction values drawn lie in -MaxSmall .. MaxSmall, or are one of
\* a few larger ones.
MaxSmall == 2

SmallInts == (0 - MaxSmall) .. MaxSmall
TypeInts == SmallInts \cup {4, 15, MININT, MININT + 1, 2147483647}

\* The decimal numeral of an int, as it is written in an input file.
RECURSIVE DecNat(_)
DecNat(n) ==
  LET d == <<"0", "1", "2", "3", "4", "5", "6", "7", "8", "9">>[(n % 10) + 1]
  IN IF n < 10 THEN <<d>> ELSE Append(DecNat(n \div 10), d)

Dec(n) ==
  IF n >= 0 THEN DecNat(n)
  ELSE IF n = MININT
  THEN <<"-", "2", "1", "4", "7", "4", "8", "3", "6", "4", "8">>
  ELSE <<"-">> \o DecNat(0 - n)

ProtoLine(suffix) ==
  <<"i", "n", "t", " ", "f", "(", "c", "o", "n", "s", "t", " ", "i", "n", "t">>
  \o suffix \o <<")", ";", "\n">>

BitsLine(n) == ProtoLine(<<"<">> \o Dec(n) \o <<">">>)
RangeLine(x, y) == ProtoLine(<<"<">> \o Dec(x) \o <<",">> \o Dec(y) \o <<">">>)
VarRangeLine(x, y) == ProtoLine(<<"[">> \o Dec(x) \o <<",">> \o Dec(y) \o <<"]">>)
ValuesLine(x, y) == ProtoLine(<<"{">> \o Dec(x) \o <<",">> \o Dec(y) \o <<"}">>)

\* A '<' suffix with an integer missing, and one without the closing '>'.
MissingIntLines ==
  {ProtoLine(<<"<", ">">>), ProtoLine(<<"<", ",", "3", ">">>),
   ProtoLine(<<"<", "4", ",", ">">>), ProtoLine(<<"<", "-", ">">>)}
MissingCloseLines ==
  {ProtoLine(<<"<", "4">>), ProtoLine(<<"<", "4", ",", "5">>)}

\* Restrictions whose numeral is outside the range of int: 2^32 + 1, which
\* sscanf stores as 1, and 2^31, which it stores as MININT.
WrappedLines ==
  {ProtoLine(<<"<">> \o <<"4", "2", "9", "4", "9", "6", "7", "2", "9", "7">> \o <<">">>),
   ProtoLine(<<"<">> \o <<"2", "1", "4", "7", "4", "8", "3", "6", "4", "8">> \o <<">">>)}

TypeLines ==
  {BitsLine(n) : n \in TypeInts}
  \cup {RangeLine(x, y) : x \in TypeInts, y \in TypeInts}
  \cup {VarRangeLine(x, y) : x \in SmallInts \cup {15}, y \in SmallInts \cup {15}}
  \cup {ValuesLine(x, y) : x \in SmallInts, y \in SmallInts}
  \cup MissingIntLines \cup MissingCloseLines
  \cup WrappedLines \cup {ProtoLine(<<"<", "3", VT, ">">>)}
  \cup {ProtoLine(<<>>)}

InitType ==
  /\ pc = "type"
  /\ tline \in TypeLines
  /\ tres = NoResult
  /\ exit_code = EC_OK
  /\ diags = <<>>
  /\ bif_text = <<>> /\ ovld_text = <<>> /\ pending = <<>>
  /\ linebuf = <<>> /\ pos = 0 /\ line = 0
  /\ bif_stanzas = <<>> /\ curr_bif_stanza = 0 /\ bifs = <<>> /\ curr_bif = 0
  /\ ovld_stanzas = <<>> /\ curr_ovld_stanza = 0 /\ ovlds = <<>> /\ curr_ovld = 0
  /\ bif_rbt = {} /\ ovld_rbt = {} /\ fntype_rbt = {}
  /\ header_out = NoFile /\ init_out = NoFile /\ defines_out = NoFile
  /\ SyncIdle
  /\ Started

\* pos = 0; consume_whitespace (); parse_prototype (&proto) on the line.
ParseProto ==
  /\ pc = "type"
  /\ tres' = parse_prototype(tline, consume_whitespace(tline, 0), ZeroProto)
  /\ linebuf' = tline
  /\ pos' = tres'.pos
  /\ pc' = "typed"
  /\ UNCHANGED <<exit_code, diags, bif_text, ovld_text, pending, line, bif_vars,
                 ovld_vars, fntype_rbt, out_vars, tline>>
  /\ UNCHANGED <<path_vars, earlier, sync_vars>>

NextType == ParseProto

SpecType == InitType /\ [][NextType]_vars

(***************************************************************************)
(* Properties of the restrictions of a "const int" argument.               *)
(***************************************************************************)
\* C9, for every int other than MININT, the value match_integer returns for
\* "no integer": "const int<N>" gives the argument the restriction RES_BITS
\* with val1 = N, "const int<X,Y>" gives it RES_RANGE with val1 = X and
\* val2 = Y, and a '<' with an integer missing, with the integer MININT or
\* with no closing '>' makes parse_prototype fail.
C9_BitsAndRange ==
  pc = "typed" =>
    /\ \A n \in TypeInts \ {MININT} :
         tline = BitsLine(n)
         => /\ tres.st = "ok" /\ tres.proto.nargs = 1
            /\ tres.proto.args[1].restr = RES_BITS
            /\ tres.proto.args[1].val1 = n
            /\ tres.proto.restr_opnd = 1 /\ tres.proto.restr = RES_BITS
            /\ tres.proto.restr_val1 = n
    /\ \A x, y \in TypeInts \ {MININT} :
         tline = RangeLine(x, y)
         => /\ tres.st = "ok" /\ tres.proto.nargs = 1
            /\ tres.proto.args[1].restr = RES_RANGE
            /\ tres.proto.args[1].val1 = x /\ tres.proto.args[1].val2 = y
            /\ tres.proto.restr_opnd = 1 /\ tres.proto.restr = RES_RANGE
            /\ tres.proto.restr_val1 = x /\ tres.proto.restr_val2 = y
    /\ tline \in MissingIntLines \cup MissingCloseLines => tres.st = "fail"
    /\ tline = BitsLine(MININT) => tres.st = "fail"
    /\ \A x, y \in TypeInts :
         (x = MININT \/ y = MININT) /\ tline = RangeLine(x, y)
         => tres.st = "fail"

\* C9: "const int<-2,15>" was parsed into the restriction RES_RANGE with
\* the values -2 and 15.
C9_Witness ==
  /\ pc = "typed" /\ tline = RangeLine(0 - 2, 15)
  /\ tres.st = "ok"
  /\ tres.proto.args[1].restr = RES_RANGE
  /\ tres.proto.args[1].val1 = 0 - 2 /\ tres.proto.args[1].val2 = 15

\* C9 as it is stated, for every int: "const int<N>" gives the argument the
\* restriction RES_BITS with val1 = N, and "const int<X,Y>" gives it
\* RES_RANGE with val1 = X and val2 = Y.
C9_AllIntegers ==
  pc = "typed" =>
    /\ \A n \in TypeInts :
         tline = BitsLine(n)
         => /\ tres.st = "ok"
            /\ tres.proto.args[1].restr = RES_BITS
            /\ tres.proto.args[1].val1 = n
    /\ \A x, y \in TypeInts :
         tline = RangeLine(x, y)
         => /\ tres.st = "ok"
            /\ tres.proto.args[1].restr = RES_RANGE
            /\ tres.proto.args[1].val1 = x /\ tres.proto.args[1].val2 = y

\* C10: "const int[X,Y]" gives the argument the restriction RES_VAR_RANGE
\* with val1 = X and val2 = Y.
C10_VarRange ==
  pc = "typed" =>
    \A x, y \in SmallInts \cup {15} :
      tline = VarRangeLine(x, y)
      => /\ tres.st = "ok"
         /\ tres.proto.args[1].restr = RES_VAR_RANGE
         /\ tres.proto.args[1].val1 = x /\ tres.proto.args[1].val2 = y

\* C11: "const int{X,Y}" gives the argument the restriction RES_VALUES with
\* val1 = X and val2 = Y.
C11_Values ==
  pc = "typed" =>
    \A x, y \in SmallInts :
      tline = ValuesLine(x, y)
      => /\ tres.st = "ok"
         /\ tres.proto.args[1].restr = RES_VALUES
         /\ tres.proto.args[1].val1 = x /\ tres.proto.args[1].val2 = y

(***************************************************************************)
(* A single entry: after the stanza header of one of the two input files,  *)
(* one prototype line is read and parse_bif_entry or parse_ovld_entry      *)
(* parses it and builds its type id.                                       *)
(***************************************************************************)
\* The return types of the prototype lines drawn.
RetTexts ==
  { <<"i", "n", "t">>,
    <<"v", "o", "i", "d">>,
    <<"u", "n", "s", "i", "g", "n", "e", "d", " ", "i", "n", "t">>,
    <<"v", "s", "c">>,
    <<"v", "b", "c">>,
    <<"v", "p">>,
    <<"v", "o", "p">>,
    <<"u", "n", "s", "i", "g", "n", "e", "d", " ", "l", "o", "n", "g", " ", "l", "o", "n", "g">>,
    <<"_", "F", "l", "o", "a", "t", "1", "2", "8">>,
    <<"d", "o", "u", "b", "l", "e">>,
    <<"v", "o", "i", "d", " ", "*">>,
    <<"i", "n", "t", " ", "*">>,
    <<"v", "u", "c", " ", "*">>,
    <<"s", "i", "g", "n", "e", "d", " ", "c", "h", "a", "r">> }

\* Their argument lists, between the parentheses.
ArgTexts ==
  { <<>>,
    <<"i", "n", "t">>,
    <<"i", "n", "t", " ", "*">>,
    <<"v", "o", "i", "d", " ", "*">>,
    <<"v", "b", "l", "l", " ", "*">>,
    <<"u", "n", "s", "i", "g", "n", "e", "d", " ", "c", "h", "a", "r", " ", "*">>,
    <<"c", "o", "n", "s", "t", " ", "i", "n", "t", "<", "3", ">">>,
    <<"v", "s", "c", ",", " ", "u", "n", "s", "i", "g", "n", "e", "d", " ", "c", "h", "a", "r">>,
    <<"c", "o", "n", "s", "t", " ", "i", "n", "t", "<", "1", ">", ",", " ", "c", "o", "n", "s", "t", " ", "i", "n", "t", "<", "0", ",", "2", ">">>,
    <<"i", "n", "t", ",", " ", "c", "o", "n", "s", "t", " ", "i", "n", "t", "<", "0", ",", "3", ">">>,
    <<"v", "o", "p">>,
    <<"f", "l", "o", "a", "t", ",", " ", "v", "p">>,
    <<"c", "o", "n", "s", "t", " ", "i", "n", "t">>,
    <<"c", "o", "n", "s", "t", " ", "u", "n", "s", "i", "g", "n", "e", "d", " ", "i", "n", "t", "<", "2", ">", ",", " ", "v", "s", "c">>,
    <<"v", "o", "i", "d">> }

\* Their function names.
FnNames ==
  { <<"f">>,
    <<"g", "2">> }

PrototypeLine(ret, name, args) ==
  ret \o <<" ">> \o name \o <<"(">> \o args \o <<")", ";", "\n">>

\* The header line of a stanza.
StanzaLine(name) == <<"[">> \o name \o <<"]", "\n">>

\* A prototype line, alone or after the modifier "pure" of a bif entry.
MangleLines ==
  {PrototypeLine(r, n, a) : r \in RetTexts, n \in FnNames, a \in ArgTexts}
  \cup {<<"p", "u", "r", "e", " ">> \o PrototypeLine(r, <<"f">>, <<>>) : r \in RetTexts}

BifHeaderLine == <<"[", "M", "]", "\n">>
OvldHeaderLine == <<"[", "O", ",", "e", ",", "i", "]", "\n">>

\* The run after parse_bif_stanza read the header of the first stanza of the
\* built-in file, or after parse_ovld_stanza read the header of the first
\* stanza of the overload file that follows an empty built-in file.
InitMangleOn(lines) ==
  /\ tline \in lines
  /\ tres = NoResult
  /\ exit_code = EC_OK /\ diags = <<>> /\ pending = <<>> /\ line = 1
  /\ bifs = <<>> /\ curr_bif = 0 /\ curr_bif_stanza = 0
  /\ ovlds = <<>> /\ curr_ovld = 0 /\ curr_ovld_stanza = 0
  /\ bif_rbt = {} /\ ovld_rbt = {} /\ fntype_rbt = {}
  /\ header_out = NewFile /\ init_out = NewFile /\ defines_out = NewFile
  /\ \/ /\ pc = "bif_loop"
        /\ bif_text = <<BifHeaderLine>> /\ ovld_text = <<>>
        /\ linebuf = BifHeaderLine
        /\ pos = bif_stanza_header(BifHeaderLine, 0).pos
        /\ bif_stanzas = <<bif_stanza_header(BifHeaderLine, 0).name>>
        /\ ovld_stanzas = <<>>
     \/ /\ pc = "ovld_loop"
        /\ bif_text = <<>> /\ ovld_text = <<OvldHeaderLine>>
        /\ linebuf = OvldHeaderLine
        /\ pos = ovld_stanza_header(OvldHeaderLine, 0).pos
        /\ bif_stanzas = <<>>
        /\ ovld_stanzas = <<ovld_stanza_header(OvldHeaderLine, 0).stanza>>
  /\ SyncIdle
  /\ Started

InitMangle == InitMangleOn(MangleLines)

\* The loop of parse_bif_stanza when advance_line reads the line tline.
MangleBif ==
  /\ pc = "bif_loop" /\ Len(bif_text) = 1
  /\ bif_text' = Append(bif_text, tline)
  /\ Advance([buf |-> Chunk(tline), rest |-> Rest(tline)])
  /\ BifEntryLine1(Chunk(tline))
  /\ UNCHANGED <<ovld_text, ovld_vars, type_vars>>
  /\ UNCHANGED <<path_vars, earlier, sync_vars>>

\* The loop of parse_ovld_stanza when advance_line reads the line tline.
MangleOvld ==
  /\ pc = "ovld_loop" /\ Len(ovld_text) = 1
  /\ ovld_text' = Append(ovld_text, tline)
  /\ Advance([buf |-> Chunk(tline), rest |-> Rest(tline)])
  /\ OvldEntryLine1(Chunk(tline))
  /\ UNCHANGED <<bif_text, bif_vars, type_vars>>
  /\ UNCHANGED <<path_vars, earlier, sync_vars>>

NextMangle == MangleBif \/ MangleOvld

SpecMangle == InitMangle /\ [][NextMangle]_vars

\* The entry of the prototype line, once parse_bif_entry or parse_ovld_entry
\* has parsed the line and stored its type id.
IsMangled == pc \in {"bif_line2", "ovld_line2"}
MangledEntry == IF pc = "bif_line2" THEN bifs[1] ELSE ovlds[1]

\* C12: the id built for a prototype without arguments is the fragment of its
\* return type followed by "_ftype_v"; "int f()" gives si_ftype_v and
\* "int f(int)" gives si_ftype_si.
C12_ZeroArgSentinel ==
  IsMangled =>
    /\ MangledEntry.proto.nargs = 0
       => MangledEntry.fndecl
            = ret_fragment(MangledEntry.proto.rettype)
              \o <<"_", "f", "t", "y", "p", "e", "_", "v">>
    /\ \A n \in FnNames :
         /\ tline = PrototypeLine(<<"i", "n", "t">>, n, <<>>)
            => Str(MangledEntry.fndecl) = "si_ftype_v"
         /\ tline = PrototypeLine(<<"i", "n", "t">>, n, <<"i", "n", "t">>)
            => Str(MangledEntry.fndecl) = "si_ftype_si"

\* "int f();" and "unsigned long long g2();" have been mangled.
C12_Witness ==
  /\ IsMangled
  /\ MangledEntry.proto.nargs = 0
  /\ Str(MangledEntry.fndecl) \in {"si_ftype_v", "udi_ftype_v"}

\* C13: an argument that is a pointer contributes the piece "pv" to the id,
\* whatever it points to.
C13_PointerArgIsPv ==
  IsMangled =>
    \A i \in 1 .. MangledEntry.proto.nargs :
      MangledEntry.proto.args[i].ispointer # 0
      => /\ Len(strtok_all(MangledEntry.fndecl, <<>>)) = MangledEntry.proto.nargs + 2
         /\ strtok_all(MangledEntry.fndecl, <<>>)[i + 2] = <<"p", "v">>

\* A pointer to a vector of bool long long was mangled as an argument.
C13_Witness ==
  /\ IsMangled
  /\ MangledEntry.proto.nargs = 1
  /\ MangledEntry.proto.args[1].ispointer # 0
  /\ MangledEntry.proto.args[1].isvector # 0
  /\ MangledEntry.proto.args[1].isbool # 0

\* C14: every prototype the parser accepts with a pointer as its return type
\* is mangled, with the pointer fragment first in the id; the mangler does
\* not abort.
C14_PointerReturnMangled ==
  /\ pc # "abort"
  /\ IsMangled /\ MangledEntry.proto.rettype.ispointer # 0
     => strtok_all(MangledEntry.fndecl, <<>>)[1] = <<"p", "v">>

\* What of a type and of a prototype is its shape: everything but the
\* function name, "const" and the restriction with its values.
TypeShape(ti) ==
  [ti EXCEPT !.isconst = 0, !.restr = RES_NONE, !.val1 = 0, !.val2 = 0]
ProtoShape(proto) ==
  [proto EXCEPT !.rettype = TypeShape(proto.rettype), !.bifname = NULL,
                !.args = [i \in 1 .. Len(proto.args) |-> TypeShape(proto.args[i])],
                !.restr_opnd = 0, !.restr = RES_NONE,
                !.restr_val1 = 0, !.restr_val2 = 0]

\* The type ids stored in the entries of the two tables.
EntryTypeIds ==
  {bifs[i].fndecl : i \in {k \in 1 .. Len(bifs) : bifs[k].fndecl # NULL}}
  \cup {ovlds[i].fndecl : i \in {k \in 1 .. Len(ovlds) : ovlds[k].fndecl # NULL}}

\* The type declarations of the header file, in the order written.
HeaderTypeIds ==
  SelectSeq(header_out.text, LAMBDA it : it.kind = "extern_fntype")

\* The enumerators of the two enumerations of the header file, in the order
\* written, and the values a C compiler gives them: an enumerator without
\* initialiser is one more than the one before it, the first one is 0, and
\* "name + k" is k more than the enumerator of that name.
BifEnum == SelectSeq(header_out.text, LAMBDA it : it.kind = "bif_enum")
OvldEnum == SelectSeq(header_out.text, LAMBDA it : it.kind = "ovld_enum")
BifValue(k) == k - 1
OvldStart ==
  IF OvldEnum[1].data = <<>> THEN 0
  ELSE BifValue(CHOOSE j \in 1 .. Len(BifEnum) :
                  BifEnum[j].name = OvldEnum[1].data[1])
       + OvldEnum[1].data[2]
OvldValue(k) == OvldStart + k - 1

\* C16: in the header the overload enumeration starts at the value after the
\* last value of the built-in enumeration, so every overload enumerator is
\* greater than every built-in enumerator and no value lies between the two
\* ranges.
C16_OvldEnumFollowsBifEnum ==
  pc \in {"write_init", "write_defines"}
  => /\ Len(BifEnum) = Cardinality(bif_rbt) + 2
     /\ Len(OvldEnum) = Cardinality(ovld_rbt) + 2
     /\ OvldValue(1) = BifValue(Len(BifEnum)) + 1
     /\ \A j \in 1 .. Len(BifEnum), k \in 1 .. Len(OvldEnum) :
          BifValue(j) < OvldValue(k)

\* The header of two built-ins and one overload: built-in values 0 to 3,
\* overload values 4 to 6.
C16_Witness ==
  /\ pc = "write_init"
  /\ Len(BifEnum) = 4 /\ Len(OvldEnum) = 3
  /\ OvldValue(1) = 4 /\ OvldValue(3) = 6

\* The names of a sequence of items, and the names that follow a prefix.
ItemNames(items) == [k \in 1 .. Len(items) |-> items[k].name]
Unprefixed(names, prefix) ==
  [k \in 1 .. Len(names) |-> SubSeq(names[k], Len(prefix) + 1, Len(names[k]))]
\* A sequence of strings in the order of strcmp, each string once.
Ascending(names) ==
  \A j, k \in 1 .. Len(names) : j < k => strcmp(names[j], names[k]) < 0
Elements(names) == {names[k] : k \in 1 .. Len(names)}
\* The ids between the enumerators NONE and MAX of an enumeration.
EnumIds(enum, prefix) ==
  Unprefixed(SubSeq(ItemNames(enum), 2, Len(enum) - 1), prefix)

(***************************************************************************)
(* Runs on entries of several types: the lines of the two files are drawn  *)
(* from pools with a restricted constant argument, the same argument       *)
(* without "const", and a vector, under several names and ids.             *)
(***************************************************************************)
DedupBifPool ==
  { StanzaLine(<<"M">>),
    PrototypeLine(<<"i", "n", "t">>, <<"f">>,
                  <<"c", "o", "n", "s", "t", " ", "i", "n", "t", "<", "1", ">">>),
    PrototypeLine(<<"i", "n", "t">>, <<"g">>, <<"i", "n", "t">>),
    PrototypeLine(<<"v", "s", "c">>, <<"h">>, <<"v", "s", "c">>),
    <<" ", "A", " ", "p", " ", "{", "}", "\n">>,
    <<" ", "B", " ", "q", " ", "{", "}", "\n">> }

DedupOvldPool ==
  { StanzaLine(<<"O", ",", "e", ",", "i">>),
    PrototypeLine(<<"i", "n", "t">>, <<"i">>,
                  <<"c", "o", "n", "s", "t", " ", "i", "n", "t", "<", "2", ">">>),
    PrototypeLine(<<"v", "s", "c">>, <<"i">>, <<"v", "s", "c">>),
    <<"A", "\n">>,
    <<"B", "\n">> }

DedupParseBif == pc = "parse_bif" /\ \E r \in Fgets(DedupBifPool) : ParseBifRead(r)
DedupBifLoop == pc = "bif_loop" /\ \E r \in Fgets(DedupBifPool) : BifLoopRead(r)
DedupBifLine2 == pc = "bif_line2" /\ \E r \in Fgets(DedupBifPool) : BifLine2Read(r)
DedupParseOvld == pc = "parse_ovld" /\ \E r \in Fgets(DedupOvldPool) : ParseOvldRead(r)
DedupOvldLoop == pc = "ovld_loop" /\ \E r \in Fgets(DedupOvldPool) : OvldLoopRead(r)
DedupOvldLine2 == pc = "ovld_line2" /\ \E r \in Fgets(DedupOvldPool) : OvldLine2Read(r)

\* The run after the five files were opened.
InitDedup ==
  /\ pc = "parse_bif"
  /\ exit_code = EC_OK
  /\ diags = <<>>
  /\ bif_text = <<>> /\ ovld_text = <<>> /\ pending = <<>>
  /\ linebuf = <<>> /\ pos = 0 /\ line = 0
  /\ bif_stanzas = <<>> /\ curr_bif_stanza = 0 /\ bifs = <<>> /\ curr_bif = 0
  /\ ovld_stanzas = <<>> /\ curr_ovld_stanza = 0 /\ ovlds = <<>> /\ curr_ovld = 0
  /\ bif_rbt = {} /\ ovld_rbt = {} /\ fntype_rbt = {}
  /\ header_out = NewFile /\ init_out = NewFile /\ defines_out = NewFile
  /\ tline = <<>> /\ tres = NoResult
  /\ SyncIdle
  /\ Started

NextDedup ==
  \/ DedupParseBif \/ DedupBifLoop \/ DedupBifLine2
  \/ DedupParseOvld \/ DedupOvldLoop \/ DedupOvldLine2
  \/ WriteHeader \/ WriteInit \/ WriteDefines

SpecDedup == InitDedup /\ [][NextDedup]_vars

\* The prototypes of the entries of the two tables whose type id is stored.
TypedProtos ==
  {bifs[i].proto : i \in {k \in 1 .. Len(bifs) : bifs[k].fndecl # NULL}}
  \cup {ovlds[i].proto : i \in {k \in 1 .. Len(ovlds) : ovlds[k].fndecl # NULL}}

\* C15: the type id of an entry is decided by the shape of its prototype
\* alone: it is the id of the prototype without its name, "const" and
\* restrictions, and two entries of either table whose prototypes have the
\* same shape have the same id; fntype_rbt holds the ids of the built-in
\* and of the overload entries; and the header declares each distinct id
\* once, however many entries share it.
C15_TypeIdsDeduplicated ==
  /\ \A i \in 1 .. Len(bifs) :
       bifs[i].fndecl # NULL
       => bifs[i].fndecl = construct_fntype_id(ProtoShape(bifs[i].proto)).id
  /\ \A i \in 1 .. Len(ovlds) :
       ovlds[i].fndecl # NULL
       => ovlds[i].fndecl = construct_fntype_id(ProtoShape(ovlds[i].proto)).id
  /\ \A p, q \in TypedProtos :
       ProtoShape(p) = ProtoShape(q)
       => construct_fntype_id(p).id = construct_fntype_id(q).id
  /\ fntype_rbt = EntryTypeIds
  /\ pc \in {"write_init", "write_defines"}
     => /\ {HeaderTypeIds[k].name : k \in 1 .. Len(HeaderTypeIds)} = EntryTypeIds
        /\ \A j, k \in 1 .. Len(HeaderTypeIds) :
             j # k => HeaderTypeIds[j].name # HeaderTypeIds[k].name

\* Two built-ins of different names and ids, one with a restricted constant
\* int and one with an int as its argument, share a type id; an overload of
\* a vector has another; and the header is written with one declaration of
\* each of the two ids.
C15_Witness ==
  /\ pc = "write_init"
  /\ Len(bifs) = 2 /\ Len(ovlds) = 1
  /\ bifs[1].fndecl = bifs[2].fndecl
  /\ bifs[1].proto.bifname # bifs[2].proto.bifname
  /\ bifs[1].idname # bifs[2].idname
  /\ bifs[1].proto.args[1].isconst # bifs[2].proto.args[1].isconst
  /\ bifs[1].proto.restr # bifs[2].proto.restr
  /\ ovlds[1].fndecl # bifs[1].fndecl
  /\ Len(HeaderTypeIds) = 2

(***************************************************************************)
(* Two runs on the same files.  The two files are drawn from a few given   *)
(* ones; once a run that got through both parsers has ended, a second      *)
(* process is started on the files the first one read, under any command   *)
(* line, with the output files of the first run still on the disk.         *)
(***************************************************************************)
\* A built-in file without a line, one whose two entries come in the
\* reverse of the order of their ids and of their type ids, and one with a
\* restricted argument.
TwiceBifFiles ==
  { <<>>,
    <<StanzaLine(<<"M">>),
      PrototypeLine(<<"v", "s", "c">>, <<"f">>, <<"v", "s", "c">>),
      <<" ", "B", " ", "p", " ", "{", "}", "\n">>,
      PrototypeLine(<<"i", "n", "t">>, <<"g">>, <<>>),
      <<" ", "A", " ", "q", " ", "{", "}", "\n">>>>,
    <<StanzaLine(<<"M">>),
      PrototypeLine(<<"i", "n", "t">>, <<"f">>,
                    <<"c", "o", "n", "s", "t", " ", "i", "n", "t", "<", "1", ">">>),
      <<" ", "A", " ", "p", " ", "{", "}", "\n">>>> }

\* An overload file without a line, and one whose two overloads come in
\* the reverse of the order of their ids, which are those of the second
\* built-in file.
TwiceOvldFiles ==
  { <<>>,
    <<StanzaLine(<<"O", ",", "e", ",", "i">>),
      PrototypeLine(<<"v", "s", "s">>, <<"i">>, <<"v", "s", "s">>),
      <<"B", "\n">>,
      PrototypeLine(<<"i", "n", "t">>, <<"i">>, <<"i", "n", "t">>),
      <<"A", "\n">>>> }

\* fgets on a file that is one of files and of which text was read: the
\* next line of a file that starts with text, and the end of a file all
\* read.
FgetsFrom(files, text) ==
  IF pending # <<>>
  THEN {[eof |-> FALSE, buf |-> Chunk(pending), rest |-> Rest(pending), new |-> <<>>]}
  ELSE {[eof |-> TRUE, buf |-> linebuf, rest |-> <<>>, new |-> <<>>] :
          f \in {g \in files : g = text}}
       \cup {[eof |-> FALSE, buf |-> Chunk(f[Len(text) + 1]),
              rest |-> Rest(f[Len(text) + 1]),
              new |-> <<f[Len(text) + 1]>>] :
               f \in {g \in files :
                        /\ Len(g) > Len(text)
                        /\ SubSeq(g, 1, Len(text)) = text}}

\* The files a run may find: any, or those the earlier run read.
BifFilesNow == IF earlier.ran THEN {earlier.bif} ELSE TwiceBifFiles
OvldFilesNow == IF earlier.ran THEN {earlier.ovld} ELSE TwiceOvldFiles

TwiceParseBif ==
  pc = "parse_bif" /\ \E r \in FgetsFrom(BifFilesNow, bif_text) : ParseBifRead(r)
TwiceBifLoop ==
  pc = "bif_loop" /\ \E r \in FgetsFrom(BifFilesNow, bif_text) : BifLoopRead(r)
TwiceBifLine2 ==
  pc = "bif_line2" /\ \E r \in FgetsFrom(BifFilesNow, bif_text) : BifLine2Read(r)
TwiceParseOvld ==
  pc = "parse_ovld" /\ \E r \in FgetsFrom(OvldFilesNow, ovld_text) : ParseOvldRead(r)
TwiceOvldLoop ==
  pc = "ovld_loop" /\ \E r \in FgetsFrom(OvldFilesNow, ovld_text) : OvldLoopRead(r)
TwiceOvldLine2 ==
  pc = "ovld_line2" /\ \E r \in FgetsFrom(OvldFilesNow, ovld_text) : OvldLine2Read(r)

\* The first process has ended after both parsers had returned 1 (the
\* header file was written), and a new process is started: its statics are
\* zero again, and the three output files are on the disk as they were
\* left.
RunAgain ==
  /\ pc \in {"exit", "abort", "crash"}
  /\ ~earlier.ran
  /\ header_out.exists /\ header_out.text # <<>>
  /\ earlier' = [ran |-> TRUE, pgm_path |-> pgm_path, bif_path |-> bif_path,
                 ovld_path |-> ovld_path, bif |-> bif_text, ovld |-> ovld_text,
                 pc |-> pc, exit_code |-> exit_code, header |-> header_out,
                 init |-> init_out, defines |-> defines_out]
  /\ pc' = "main"
  /\ exit_code' = EC_OK
  /\ diags' = <<>>
  /\ bif_text' = <<>> /\ ovld_text' = <<>> /\ pending' = <<>>
  /\ linebuf' = <<>> /\ pos' = 0 /\ line' = 0
  /\ bif_stanzas' = <<>> /\ curr_bif_stanza' = 0 /\ bifs' = <<>> /\ curr_bif' = 0
  /\ ovld_stanzas' = <<>> /\ curr_ovld_stanza' = 0 /\ ovlds' = <<>>
  /\ curr_ovld' = 0
  /\ bif_rbt' = {} /\ ovld_rbt' = {} /\ fntype_rbt' = {}
  /\ pgm_path' = NULL /\ bif_path' = NULL /\ ovld_path' = NULL
  /\ UNCHANGED <<out_vars, type_vars, sync_vars>>

NextTwice ==
  \/ MainArgs \/ OpenBif \/ OpenOvld \/ OpenHeader \/ OpenInit \/ OpenDefines
  \/ TwiceParseBif \/ TwiceBifLoop \/ TwiceBifLine2
  \/ TwiceParseOvld \/ TwiceOvldLoop \/ TwiceOvldLine2
  \/ WriteHeader \/ WriteInit \/ WriteDefines
  \/ RunAgain

SpecTwice == Init /\ [][NextTwice]_vars

\* A run that ended with EC_OK on files all of whose entries are complete.
GeneratedFromValid ==
  /\ pc = "exit" /\ exit_code = EC_OK
  /\ Len(bifs) > 0 /\ Len(ovlds) > 0
  /\ \A i \in 1 .. Len(bifs) : bifs[i].idname # NULL
  /\ \A i \in 1 .. Len(ovlds) : ovlds[i].idname # NULL

\* Two runs on the same files have both ended with EC_OK.
BothGenerated ==
  /\ pc = "exit" /\ exit_code = EC_OK
  /\ earlier.ran /\ earlier.pc = "exit" /\ earlier.exit_code = EC_OK

\* The items of an output file but for the comment at its top.
Records(text) == SelectSeq(text, LAMBDA it : it.kind # "autogenerated")

SameCommandLine ==
  /\ pgm_path = earlier.pgm_path
  /\ bif_path = earlier.bif_path
  /\ ovld_path = earlier.ovld_path

\* The order of the items of the three output files of a run that ended
\* with EC_OK: the header holds the comment, the two enumerations and the
\* type declarations, each in the strcmp order of its tree and with each
\* element once; the init file holds the comment, the type declarations
\* and initialisers in that order, then one block for each index of the
\* loops over the two tables, in the order of the entries; the defines
\* file holds the alias lines in the order of the stanzas.
InRegistryOrder ==
  /\ header_out.text
       = <<write_autogenerated_header>> \o BifEnum \o OvldEnum \o HeaderTypeIds
  /\ Ascending(EnumIds(BifEnum, BIF_PREFIX))
  /\ Elements(EnumIds(BifEnum, BIF_PREFIX)) = bif_rbt
  /\ Ascending(EnumIds(OvldEnum, OVLD_PREFIX))
  /\ Elements(EnumIds(OvldEnum, OVLD_PREFIX)) = ovld_rbt
  /\ Ascending(ItemNames(HeaderTypeIds))
  /\ Elements(ItemNames(HeaderTypeIds)) = fntype_rbt
  /\ ItemNames(SelectSeq(init_out.text, LAMBDA it : it.kind = "fntype"))
       = ItemNames(HeaderTypeIds)
  /\ ItemNames(SelectSeq(init_out.text, LAMBDA it : it.kind = "fntype_init"))
       = ItemNames(HeaderTypeIds)
  /\ ItemNames(SelectSeq(init_out.text, LAMBDA it : it.kind = "bif"))
       = [k \in 1 .. curr_bif + 1 |-> BifAt(k - 1).idname]
  /\ ItemNames(SelectSeq(init_out.text, LAMBDA it : it.kind = "ovld"))
       = [k \in 1 .. curr_ovld + 1 |-> OvldAt(k - 1).idname]
  /\ ItemNames(defines_out.text)
       = [k \in 1 .. Len(ovld_stanzas) |-> ovld_stanzas[k].extern_name]

\* The attribute names drawn: those of the source, "mma" and "vsx".
AttrNames ==
  { <<"i", "n", "i", "t">>,
    <<"s", "e", "t">>,
    <<"e", "x", "t", "r", "a", "c", "t">>,
    <<"n", "o", "s", "o", "f", "t">>,
    <<"l", "d", "v", "e", "c">>,
    <<"s", "t", "v", "e", "c">>,
    <<"r", "e", "v", "e">>,
    <<"p", "r", "e", "d">>,
    <<"h", "t", "m">>,
    <<"h", "t", "m", "s", "p", "r">>,
    <<"h", "t", "m", "c", "r">>,
    <<"n", "o", "3", "2", "b", "i", "t">>,
    <<"c", "p", "u">>,
    <<"l", "d", "s", "t", "m", "a", "s", "k">>,
    <<"m", "m", "a">>,
    <<"v", "s", "x">> }

\* The longest attribute list drawn.
MaxAttrs == 2

\* The lists of at most n attribute names.
RECURSIVE AttrLists(_)
AttrLists(n) ==
  IF n = 0 THEN {<<>>}
  ELSE AttrLists(n - 1)
       \cup {Append(l, a) : l \in {m \in AttrLists(n - 1) : Len(m) = n - 1},
                            a \in AttrNames}

\* The names of a list with ", " between them.
RECURSIVE CommaList(_)
CommaList(l) ==
  IF l = <<>> THEN <<>>
  ELSE IF Len(l) = 1 THEN l[1]
  ELSE l[1] \o <<",", " ">> \o CommaList(Tail(l))

\* The line "<bif-id> <bif-pattern> {<attribute-list>}".
AttrLine(l) == <<" ", "A", " ", "p", " ", "{">> \o CommaList(l) \o <<"}", "\n">>

\* Attribute lines that are not of that form: a comma after the last name,
\* no comma between two names, no closing brace, no list.
BadAttrLines ==
  { <<"A", " ", "p", " ", "{", "s", "e", "t", ",", "}", "\n">>,
    <<"A", " ", "p", " ", "{", "s", "e", "t", " ", "c", "p", "u", "}", "\n">>,
    <<"A", " ", "p", " ", "{", ",", "}", "\n">>,
    <<"A", " ", "p", " ", "{", "s", "e", "t", "\n">>,
    <<"A", " ", "p", "\n">> }

GoodAttrLines == {AttrLine(l) : l \in AttrLists(MaxAttrs)}

AttrLines == GoodAttrLines \cup BadAttrLines

\* The stanza names drawn.
StanzaNames ==
  { <<"M">>,
    <<"b", "o", "g", "u", "s">>,
    <<"9", "_", "x">> }

\* The line "[<name>]" after the text lead and before the text trail.
HeaderLine(lead, name, trail) ==
  lead \o <<"[">> \o name \o <<"]">> \o trail \o <<"\n">>

Blanks == {<<>>, <<" ">>}

GoodHeaderLines ==
  {HeaderLine(lead, n, trail) : lead \in Blanks, n \in StanzaNames, trail \in Blanks}

\* Header lines that are not of that form: no bracket, no name, a blank next
\* to the name, text after the bracket.
BadHeaderLines ==
  UNION {{ n \o <<"]", "\n">>,
           <<"[">> \o n \o <<"\n">>,
           <<"[", " ">> \o n \o <<"]", "\n">>,
           <<"[">> \o n \o <<" ", "]", "\n">>,
           <<"[">> \o n \o <<"]", " ", "z", "\n">> } : n \in StanzaNames}
  \cup {<<"[", "]", "\n">>, <<"[", "-", "]", "\n">>}

HeaderLines == GoodHeaderLines \cup BadHeaderLines

InitLine ==
  /\ pc = "line"
  /\ tline \in AttrLines \cup HeaderLines
  /\ tres = NoResult
  /\ exit_code = EC_OK
  /\ diags = <<>>
  /\ bif_text = <<>> /\ ovld_text = <<>> /\ pending = <<>>
  /\ linebuf = <<>> /\ pos = 0 /\ line = 0
  /\ bif_stanzas = <<>> /\ curr_bif_stanza = 0 /\ bifs = <<>> /\ curr_bif = 0
  /\ ovld_stanzas = <<>> /\ curr_ovld_stanza = 0 /\ ovlds = <<>> /\ curr_ovld = 0
  /\ bif_rbt = {} /\ ovld_rbt = {} /\ fntype_rbt = {}
  /\ header_out = NoFile /\ init_out = NoFile /\ defines_out = NoFile
  /\ SyncIdle
  /\ Started

\* parse_bif_entry from "Now process line 2" on, on the line.
ParseLine2 ==
  /\ pc = "line" /\ tline \in AttrLines
  /\ tres' = bif_entry_line2(tline, {})
  /\ linebuf' = tline
  /\ pos' = tres'.pos
  /\ pc' = "attrs"
  /\ UNCHANGED <<exit_code, diags, bif_text, ovld_text, pending, line, bif_vars,
                 ovld_vars, fntype_rbt, out_vars, tline>>
  /\ UNCHANGED <<path_vars, earlier, sync_vars>>

\* parse_bif_stanza up to its loop, on the line.
ParseHeader ==
  /\ pc = "line" /\ tline \in HeaderLines
  /\ tres' = bif_stanza_header(tline, 0)
  /\ linebuf' = tline
  /\ pos' = tres'.pos
  /\ pc' = "header"
  /\ UNCHANGED <<exit_code, diags, bif_text, ovld_text, pending, line, bif_vars,
                 ovld_vars, fntype_rbt, out_vars, tline>>
  /\ UNCHANGED <<path_vars, earlier, sync_vars>>

NextLine == ParseLine2 \/ ParseHeader

SpecLine == InitLine /\ [][NextLine]_vars

(***************************************************************************)
(* Properties of the attributes line and of the stanza header.             *)
(***************************************************************************)
\* The words of a line: what stands between blanks, commas, braces and the
\* end of the line.
RECURSIVE Words(_, _)
Words(s, cur) ==
  IF s = <<>> THEN (IF cur = <<>> THEN <<>> ELSE <<Str(cur)>>)
  ELSE IF Head(s) \in {" ", ",", "{", "}", "\n"}
  THEN (IF cur = <<>> THEN <<>> ELSE <<Str(cur)>>) \o Words(Tail(s), <<>>)
  ELSE Words(Tail(s), Append(cur, Head(s)))

\* The names listed between the braces of an attributes line, after the id
\* and the pattern name.
ListedAttrs(ln) ==
  {Words(ln, <<>>)[k] : k \in 3 .. Len(Words(ln, <<>>))}

\* The vocabulary of attribute names as the specification lists it.
AttributeSet ==
  {"init", "set", "extract", "nosoft", "ldvec", "stvec", "reve", "pred",
   "htm", "htmspr", "htmcr", "mma", "no32bit", "cpu", "ldstmask"}

\* C18, without "mma": an attribute list "{a1, ..., ak}" is accepted if and
\* only if each of its names is one of init, set, extract, nosoft, ldvec,
\* stvec, reve, pred, htm, htmspr, htmcr, no32bit, cpu, ldstmask; a list with
\* another name is a parse failure; the flags of an accepted list are the
\* set of its names, whatever their order and however often each is written.
C18_AttrsAccepted ==
  pc = "attrs" /\ tline \in GoodAttrLines
  => /\ tres.st \in {"ok", "fail"}
     /\ tres.st = "ok" <=> ListedAttrs(tline) \subseteq AttributeSet \ {"mma"}
     /\ tres.st = "ok" => tres.attrs = ListedAttrs(tline)

\* "{set, cpu}" was accepted, with the flags set and cpu.
C18_Witness ==
  /\ pc = "attrs" /\ tres.st = "ok"
  /\ tline = AttrLine(<<<<"s", "e", "t">>, <<"c", "p", "u">>>>)
  /\ tres.attrs = {"cpu", "set"}

\* C18 as stated, with "mma" in the vocabulary: an attribute list is accepted
\* if and only if each of its names is in the vocabulary.
C18_WithMma ==
  pc = "attrs" /\ tline \in GoodAttrLines
  => (tres.st = "ok" <=> ListedAttrs(tline) \subseteq AttributeSet)

(***************************************************************************)
(* Runs on the stanzas of the built-in file: the generator has read no     *)
(* line, or it has read MAXBIFSTANZAS - 1 empty stanzas "[M]"; then it     *)
(* reads header lines of every form and the two lines of entries.          *)
(***************************************************************************)
MaxStanzaLines == 6
MaxHeaders == 2

\* The empty stanzas read before the lines that are drawn.
ReadBefore == IF Len(bif_text) >= MAXBIFSTANZAS - 1 THEN MAXBIFSTANZAS - 1 ELSE 0

\* The two lines of the entries drawn.
StanzaEntryLines ==
  { PrototypeLine(<<"i", "n", "t">>, <<"f">>, <<>>),
    <<" ", "A", " ", "p", " ", "{", "}", "\n">>,
    <<" ", "B", " ", "q", " ", "{", "}", "\n">> }

\* The header lines among the lines drawn so far.
HeadersDrawn ==
  Cardinality({k \in (ReadBefore + 1) .. Len(bif_text) : bif_text[k] \in HeaderLines})

\* fgets on the built-in file: the end of the file, a header line, or a
\* line of an entry.
StanzaFgets ==
  IF pending # <<>>
  THEN {[eof |-> FALSE, buf |-> Chunk(pending), rest |-> Rest(pending), new |-> <<>>]}
  ELSE {[eof |-> TRUE, buf |-> linebuf, rest |-> <<>>, new |-> <<>>]}
       \cup (IF Len(bif_text) - ReadBefore < MaxStanzaLines
             THEN {[eof |-> FALSE, buf |-> Chunk(ln), rest |-> Rest(ln), new |-> <<ln>>] :
                     ln \in StanzaEntryLines
                            \cup (IF HeadersDrawn < MaxHeaders THEN HeaderLines ELSE {})}
             ELSE {})

InitStanza ==
  /\ exit_code = EC_OK
  /\ diags = <<>>
  /\ ovld_text = <<>> /\ pending = <<>>
  /\ \E n \in {0, MAXBIFSTANZAS - 1} :
       /\ pc = IF n = 0 THEN "parse_bif" ELSE "bif_loop"
       /\ bif_text = [k \in 1 .. n |-> StanzaLine(<<"M">>)]
       /\ bif_stanzas = [k \in 1 .. n |-> <<"M">>]
       /\ curr_bif_stanza = IF n = 0 THEN 0 ELSE n - 1
       /\ linebuf = IF n = 0 THEN <<>> ELSE StanzaLine(<<"M">>)
       /\ pos = IF n = 0 THEN 0 ELSE 3
       /\ line = n
  /\ bifs = <<>> /\ curr_bif = 0
  /\ ovld_stanzas = <<>> /\ curr_ovld_stanza = 0 /\ ovlds = <<>> /\ curr_ovld = 0
  /\ bif_rbt = {} /\ ovld_rbt = {} /\ fntype_rbt = {}
  /\ header_out = NewFile /\ init_out = NewFile /\ defines_out = NewFile
  /\ tline = <<>> /\ tres = NoResult
  /\ SyncIdle
  /\ Started

StanzaParseBif == pc = "parse_bif" /\ \E r \in StanzaFgets : ParseBifRead(r)
StanzaBifLoop == pc = "bif_loop" /\ \E r \in StanzaFgets : BifLoopRead(r)
StanzaBifLine2 == pc = "bif_line2" /\ \E r \in StanzaFgets : BifLine2Read(r)

NextStanza == StanzaParseBif \/ StanzaBifLoop \/ StanzaBifLine2

SpecStanza == InitStanza /\ [][NextStanza]_vars

\* The name between the brackets of a header line of the form "[name]".
NameOf(ln) ==
  CHOOSE n \in StanzaNames :
    \E lead \in Blanks, trail \in Blanks : ln = HeaderLine(lead, n, trail)

\* What becomes of a header line ln read where a header may stand: it is
\* accepted, and its name is stored as the current stanza, when it has the
\* form "[name]" and the table of stanzas is not full; otherwise main ends
\* the run with EC_PARSEBIF after a diagnostic, and no output file is left.
HeaderStep(ln) ==
  IF ln \in GoodHeaderLines /\ num_bif_stanzas < MAXBIFSTANZAS
  THEN /\ pc' = "bif_loop"
       /\ bif_stanzas' = Append(bif_stanzas, NameOf(ln))
       /\ curr_bif_stanza' = num_bif_stanzas
       /\ UNCHANGED <<exit_code, diags, out_vars>>
  ELSE /\ pc' = "exit" /\ exit_code' = EC_PARSEBIF
       /\ Len(diags') > Len(diags)
       /\ ~header_out'.exists /\ ~init_out'.exists /\ ~defines_out'.exists

\* The stanza name each entry of the text should carry, in the order of the
\* entries: the name of the last header line before its first line.  where
\* is "first" at the first line of the file, "loop" where a header or the
\* first line of an entry may stand, and "line2" behind such a first line.
RECURSIVE StanzaTags(_, _, _)
StanzaTags(text, where, last) ==
  IF text = <<>> THEN <<>>
  ELSE IF IsSkipped(Head(text)) THEN StanzaTags(Tail(text), where, last)
  ELSE IF where = "line2" THEN StanzaTags(Tail(text), "loop", last)
  ELSE IF Head(text) \in GoodHeaderLines
  THEN StanzaTags(Tail(text), "loop", NameOf(Head(text)))
  ELSE IF where = "first" \/ IsStanzaHeader(Head(text)) THEN <<>>
  ELSE <<last>> \o StanzaTags(Tail(text), "line2", last)

\* Every entry of the table carries the name of the last header before it.
\* The empty stanzas read before the lines drawn hold no entry.
EntriesTagged ==
  LET tags == StanzaTags(SubSeq(bif_text, ReadBefore + 1, Len(bif_text)),
                         IF ReadBefore = 0 THEN "first" ELSE "loop",
                         IF ReadBefore = 0 THEN NULL ELSE <<"M">>)
  IN /\ Len(bifs) = Len(tags)
     /\ \A i \in 1 .. Len(bifs) : BifStanzaAt(bifs[i].stanza) = tags[i]

\* Names that are no target feature.
MadeUpNames == {"bogus", "9_x"}

\* C19, for the header as this generator reads it: a header line of a
\* built-in stanza is accepted if and only if it is "[name]" with a name of
\* letters, digits and underscores, blanks at most before the '[' and after
\* the ']', and fewer than MAXBIFSTANZAS headers were accepted before it;
\* the name, whatever it is, becomes the stanza of the entries that follow,
\* so that every entry carries the name of the last header before it; any
\* other header line ends the run with EC_PARSEBIF and no output file.
C19_HeaderAccepted ==
  /\ []EntriesTagged
  /\ [][\A ln \in HeaderLines :
          pc \in {"parse_bif", "bif_loop"} /\ bif_text' = Append(bif_text, ln)
          => HeaderStep(ln)]_vars

\* After a stanza M with an entry, the header "[bogus]" was accepted and
\* the entry that follows it carries the stanza name bogus.
C19_Witness ==
  /\ pc = "bif_loop"
  /\ Len(bifs) = 2 /\ bifs[2].idname # NULL
  /\ Str(BifStanzaAt(bifs[1].stanza)) = "M"
  /\ Str(BifStanzaAt(bifs[2].stanza)) = "bogus"
  /\ bif_text[4] = HeaderLine(<<>>, <<"b", "o", "g", "u", "s">>, <<>>)

\* C19 as stated: a header is accepted only if its name belongs to a closed
\* vocabulary of gating tokens, so no entry carries a made-up name.
C19_ClosedVocabulary ==
  /\ \A k \in 1 .. Len(bif_stanzas) : Str(bif_stanzas[k]) \notin MadeUpNames
  /\ \A i \in 1 .. Len(bifs) :
       BifStanzaAt(bifs[i].stanza) # NULL
       => Str(BifStanzaAt(bifs[i].stanza)) \notin MadeUpNames

\* The positions of the arguments of a prototype that carry a restriction.
RestrictedArgs(proto) ==
  {i \in 1 .. proto.nargs : proto.args[i].restr # RES_NONE}

\* The argument lists drawn with two restricted arguments.
TwoRestricted ==
  <<"c", "o", "n", "s", "t", " ", "i", "n", "t", "<", "1", ">", ",", " ",
    "c", "o", "n", "s", "t", " ", "i", "n", "t", "<", "0", ",", "2", ">">>

\* C20: in a prototype that was parsed, the restricted operand recorded is
\* the argument that carries a restriction, with its position counted from 1
\* and its kind and values; restr_opnd is 0 when no argument carries one; no
\* parsed prototype has two restricted arguments, and a prototype line with
\* two of them is a parse failure.
C20_RestrictedOperand ==
  /\ IsMangled
     => /\ Cardinality(RestrictedArgs(MangledEntry.proto)) <= 1
        /\ RestrictedArgs(MangledEntry.proto) = {}
           => MangledEntry.proto.restr_opnd = 0
        /\ \A i \in RestrictedArgs(MangledEntry.proto) :
             /\ MangledEntry.proto.restr_opnd = i
             /\ MangledEntry.proto.restr = MangledEntry.proto.args[i].restr
             /\ MangledEntry.proto.restr_val1 = MangledEntry.proto.args[i].val1
             /\ MangledEntry.proto.restr_val2 = MangledEntry.proto.args[i].val2
        /\ \A n \in FnNames :
             /\ tline = PrototypeLine(<<"i", "n", "t">>, n,
                                      <<"i", "n", "t", ",", " ", "c", "o", "n", "s",
                                        "t", " ", "i", "n", "t", "<", "0", ",", "3",
                                        ">">>)
                => /\ MangledEntry.proto.restr_opnd = 2
                   /\ MangledEntry.proto.restr = RES_RANGE
                   /\ MangledEntry.proto.restr_val1 = 0
                   /\ MangledEntry.proto.restr_val2 = 3
             /\ tline = PrototypeLine(<<"i", "n", "t">>, n, <<"i", "n", "t">>)
                => MangledEntry.proto.restr_opnd = 0
  /\ (pc \notin {"bif_loop", "ovld_loop"}
      /\ \E r \in RetTexts, n \in FnNames : tline = PrototypeLine(r, n, TwoRestricted))
     => /\ pc = "exit"
        /\ exit_code \in {EC_PARSEBIF, EC_PARSEOVLD}

\* "int, const int<0,3>" was parsed: the second argument is the restricted
\* operand.
C20_Witness ==
  /\ IsMangled
  /\ MangledEntry.proto.nargs = 2
  /\ MangledEntry.proto.restr_opnd = 2
  /\ RestrictedArgs(MangledEntry.proto) = {2}

(***************************************************************************)
(* Lines around the size of linebuf.  advance_line reads with              *)
(* fgets (linebuf, sizeof linebuf, file): a line of more than LINELEN - 1  *)
(* characters, its newline included, is delivered in pieces, and each      *)
(* piece is treated as a line of its own.                                  *)
(***************************************************************************)
MaxOver == 6

Pad(c, n) == [i \in 1 .. n |-> c]

\* Numbers of padding characters that leave the line below, at and above
\* the size of the buffer.
PadLengths == (LINELEN - 10 - MaxOver) .. (LINELEN + MaxOver)

\* A comment followed by a prototype on the same line, a prototype after
\* leading blanks, a prototype with a long name, and a prototype followed
\* by blanks.
LongLines ==
  UNION { { <<";">> \o Pad("x", n) \o PrototypeLine(<<"i", "n", "t">>, <<"f">>, <<>>),
            Pad(" ", n) \o PrototypeLine(<<"i", "n", "t">>, <<"f">>, <<>>),
            <<"i", "n", "t", " ", "f">> \o Pad("a", n) \o <<"(", ")", ";", "\n">>,
            <<"i", "n", "t", " ", "f", "(", ")", ";">> \o Pad(" ", n) \o <<"\n">> } :
          n \in PadLengths }

IdLine == <<" ", "A", " ", "p", "{", "}", "\n">>

\* fgets on a built-in file that holds the header of a stanza, the line
\* tline and the line IdLine.
LongFgets ==
  IF pending # <<>>
  THEN {[eof |-> FALSE, buf |-> Chunk(pending), rest |-> Rest(pending), new |-> <<>>]}
  ELSE IF Len(bif_text) = 1
  THEN {[eof |-> FALSE, buf |-> Chunk(tline), rest |-> Rest(tline), new |-> <<tline>>]}
  ELSE IF Len(bif_text) = 2
  THEN {[eof |-> FALSE, buf |-> Chunk(IdLine), rest |-> Rest(IdLine), new |-> <<IdLine>>]}
  ELSE {[eof |-> TRUE, buf |-> linebuf, rest |-> <<>>, new |-> <<>>]}

\* The run after parse_bif_stanza read the header of the first stanza.
InitLong ==
  /\ tline \in LongLines
  /\ tres = NoResult
  /\ exit_code = EC_OK /\ diags = <<>> /\ pending = <<>> /\ line = 1
  /\ bifs = <<>> /\ curr_bif = 0 /\ curr_bif_stanza = 0
  /\ ovlds = <<>> /\ curr_ovld = 0 /\ curr_ovld_stanza = 0
  /\ bif_rbt = {} /\ ovld_rbt = {} /\ fntype_rbt = {}
  /\ header_out = NewFile /\ init_out = NewFile /\ defines_out = NewFile
  /\ pc = "bif_loop"
  /\ bif_text = <<BifHeaderLine>> /\ ovld_text = <<>>
  /\ linebuf = BifHeaderLine
  /\ pos = bif_stanza_header(BifHeaderLine, 0).pos
  /\ bif_stanzas = <<bif_stanza_header(BifHeaderLine, 0).name>>
  /\ ovld_stanzas = <<>>
  /\ SyncIdle
  /\ Started

LongBifLoop == pc = "bif_loop" /\ \E r \in LongFgets : BifLoopRead(r)

LongBifLine2 == pc = "bif_line2" /\ \E r \in LongFgets : BifLine2Read(r)

NextLong == LongBifLoop \/ LongBifLine2

SpecLong == InitLong /\ [][NextLong]_vars

\* A line whose text, the newline not counted, is longer than LINELEN.
Overlong(ln) == Len(ln) - 1 > LINELEN

OverlongRead == \E i \in 1 .. Len(bif_text) : Overlong(bif_text[i])

\* parse_bif returned, or the process ended.
BifFileDone == pc \in {"parse_ovld", "exit", "abort", "crash"}

\* C21: a run that read a line longer than LINELEN ends with the exit code
\* EC_INTERR; the line is never split, shortened or reported as an
\* ordinary parse failure.
C21_OverlongIsInternalError ==
  (OverlongRead /\ BifFileDone) => (pc = "exit" /\ exit_code = EC_INTERR)

\* The rest of an over-long comment line is parsed as the first line of
\* an entry and the built-in file is accepted.
C21_SplitAccepted ==
  /\ pc = "parse_ovld" /\ OverlongRead
  /\ Len(bifs) = 1 /\ bifs[1].proto.bifname = <<"f">>

\* An over-long line ends the run with the parse failure code.
C21_OrdinaryFailure ==
  pc = "exit" /\ OverlongRead /\ exit_code = EC_PARSEBIF

\* No run that read an over-long line ended with EC_INTERR.
C21_NeverInternalError ==
  OverlongRead => ~(pc = "exit" /\ exit_code = EC_INTERR)

\* The prototype line read has the argument list args, whatever its return
\* type and name.
ReadWithArgs(args) ==
  /\ LinesRead = 2
  /\ \E r \in RetTexts, n \in FnNames : tline = PrototypeLine(r, n, args)

\* C22: "void" alone is a type only where void is allowed, the return type;
\* as an argument it is refused and the parse fails.  "void *" is a type in
\* both places, so an argument of an accepted prototype that has isvoid set
\* is a pointer.
C22_VoidArgIsPointer ==
  /\ IsMangled =>
       \A i \in 1 .. MangledEntry.proto.nargs :
         MangledEntry.proto.args[i].isvoid # 0
         => /\ MangledEntry.proto.args[i].ispointer # 0
            /\ MangledEntry.proto.args[i].base = ZeroType.base
            /\ MangledEntry.proto.args[i].isvector = 0
  /\ ReadWithArgs(<<"v", "o", "i", "d">>)
     => pc = "exit" /\ exit_code \in {EC_PARSEBIF, EC_PARSEOVLD}
  /\ LinesRead = 2 /\ (\E n \in FnNames : tline = PrototypeLine(<<"v", "o", "i", "d">>, n, <<>>))
     => /\ IsMangled
        /\ MangledEntry.proto.rettype.isvoid # 0
        /\ MangledEntry.proto.rettype.ispointer = 0

\* A prototype with the argument "void *" was accepted.
C22_Witness ==
  /\ IsMangled
  /\ ReadWithArgs(<<"v", "o", "i", "d", " ", "*">>)
  /\ MangledEntry.proto.nargs = 1
  /\ MangledEntry.proto.args[1].isvoid # 0

\* C22 as stated: no argument of an accepted prototype has isvoid set.
C22_NoVoidArgument ==
  IsMangled =>
    \A i \in 1 .. MangledEntry.proto.nargs : MangledEntry.proto.args[i].isvoid = 0

\* The type descriptors of the entry: its return type and its arguments.
EntryTypes(e) == {e.proto.rettype} \cup {e.proto.args[i] : i \in 1 .. e.proto.nargs}

\* C23: in every descriptor of an accepted prototype a restriction is found
\* only on a constant int that is no vector, pointer or void; issigned and
\* isunsigned are not both set; a vector is neither const nor restricted.
C23_DescriptorInvariant ==
  IsMangled =>
    \A ti \in EntryTypes(MangledEntry) :
      /\ ti.restr # RES_NONE
         => /\ ti.isconst # 0 /\ ti.base = BT_INT
            /\ ti.isvector = 0 /\ ti.ispointer = 0 /\ ti.isvoid = 0
      /\ ~(ti.issigned # 0 /\ ti.isunsigned # 0)
      /\ ti.isvector # 0 => ti.isconst = 0 /\ ti.restr = RES_NONE

\* A prototype with a restricted constant unsigned int and a vector as its
\* arguments was accepted.
C23_Witness ==
  /\ IsMangled
  /\ MangledEntry.proto.nargs = 2
  /\ MangledEntry.proto.args[1].restr = RES_BITS
  /\ MangledEntry.proto.args[1].isunsigned # 0
  /\ MangledEntry.proto.args[2].isvector # 0

(***************************************************************************)
(* Runs on whole files: the built-in file is one of a few given files and  *)
(* the overload file is any sequence of the lines of TablesOvldPool, so    *)
(* that several overloads of several names reach the table writers.        *)
(***************************************************************************)
MaxOvldLines == 7

\* The two lines of an entry of the built-in file.
BifEntryLines(name, id, pattern) ==
  <<PrototypeLine(<<"i", "n", "t">>, name, <<>>),
    <<" ">> \o id \o <<" ">> \o pattern \o <<" ", "{", "}", "\n">>>>

\* The empty file, a file of one stanza, and a file whose stanzas are
\* enabled by MASK_ALTIVEC, by another mask and by MASK_VSX.
BifFiles ==
  { <<>>,
    <<StanzaLine(<<"M">>)>>
      \o BifEntryLines(<<"f">>, <<"A">>, <<"p">>)
      \o BifEntryLines(<<"g">>, <<"B">>, <<"q">>)
      \o BifEntryLines(<<"h">>, <<"C">>, <<"r">>),
    <<StanzaLine(<<"M", "A", "S", "K", "_", "A", "L", "T", "I", "V", "E", "C">>)>>
      \o BifEntryLines(<<"f">>, <<"A">>, <<"p">>)
      \o <<StanzaLine(<<"M">>)>>
      \o BifEntryLines(<<"g">>, <<"B">>, <<"q">>)
      \o <<StanzaLine(<<"M", "A", "S", "K", "_", "V", "S", "X">>)>>
      \o BifEntryLines(<<"h">>, <<"C">>, <<"r">>) }

TablesOvldPool ==
  { StanzaLine(<<"O", ",", "e", ",", "i">>),
    StanzaLine(<<"P", ",", "x", ",", "j">>),
    PrototypeLine(<<"i", "n", "t">>, <<"i">>, <<>>),
    PrototypeLine(<<"i", "n", "t">>, <<"j">>, <<>>),
    <<"A", "\n">>, <<" ", "B", "\n">>, <<"C", "\n">> }

\* fgets on the built-in file: the next line of one of the files that
\* start with the lines read, and the end of a file all read.
FileFgets ==
  IF pending # <<>>
  THEN {[eof |-> FALSE, buf |-> Chunk(pending), rest |-> Rest(pending), new |-> <<>>]}
  ELSE {[eof |-> TRUE, buf |-> linebuf, rest |-> <<>>, new |-> <<>>] :
          f \in {g \in BifFiles : g = bif_text}}
       \cup {[eof |-> FALSE, buf |-> Chunk(f[Len(bif_text) + 1]),
              rest |-> Rest(f[Len(bif_text) + 1]),
              new |-> <<f[Len(bif_text) + 1]>>] :
               f \in {g \in BifFiles :
                        /\ Len(g) > Len(bif_text)
                        /\ SubSeq(g, 1, Len(bif_text)) = bif_text}}

\* fgets on the overload file.
PoolFgets ==
  IF pending # <<>>
  THEN {[eof |-> FALSE, buf |-> Chunk(pending), rest |-> Rest(pending), new |-> <<>>]}
  ELSE {[eof |-> TRUE, buf |-> linebuf, rest |-> <<>>, new |-> <<>>]}
       \cup (IF Len(ovld_text) < MaxOvldLines
             THEN {[eof |-> FALSE, buf |-> Chunk(ln), rest |-> Rest(ln), new |-> <<ln>>] :
                     ln \in TablesOvldPool}
             ELSE {})

\* The run after the five files were opened.
InitTables ==
  /\ pc = "parse_bif"
  /\ exit_code = EC_OK
  /\ diags = <<>>
  /\ bif_text = <<>> /\ ovld_text = <<>> /\ pending = <<>>
  /\ linebuf = <<>> /\ pos = 0 /\ line = 0
  /\ bif_stanzas = <<>> /\ curr_bif_stanza = 0 /\ bifs = <<>> /\ curr_bif = 0
  /\ ovld_stanzas = <<>> /\ curr_ovld_stanza = 0 /\ ovlds = <<>> /\ curr_ovld = 0
  /\ bif_rbt = {} /\ ovld_rbt = {} /\ fntype_rbt = {}
  /\ header_out = NewFile /\ init_out = NewFile /\ defines_out = NewFile
  /\ tline = <<>> /\ tres = NoResult
  /\ SyncIdle
  /\ Started

TablesParseBif == pc = "parse_bif" /\ \E r \in FileFgets : ParseBifRead(r)
TablesBifLoop == pc = "bif_loop" /\ \E r \in FileFgets : BifLoopRead(r)
TablesBifLine2 == pc = "bif_line2" /\ \E r \in FileFgets : BifLine2Read(r)
TablesParseOvld == pc = "parse_ovld" /\ \E r \in PoolFgets : ParseOvldRead(r)
TablesOvldLoop == pc = "ovld_loop" /\ \E r \in PoolFgets : OvldLoopRead(r)
TablesOvldLine2 == pc = "ovld_line2" /\ \E r \in PoolFgets : OvldLine2Read(r)

NextTables ==
  \/ TablesParseBif \/ TablesBifLoop \/ TablesBifLine2
  \/ TablesParseOvld \/ TablesOvldLoop \/ TablesOvldLine2
  \/ WriteHeader \/ WriteInit \/ WriteDefines

SpecTables == InitTables /\ [][NextTables]_vars

\* The overload blocks of the init file, in the order written.
OvldBlocks == SelectSeq(init_out.text, LAMBDA it : it.kind = "ovld")

\* The block the next initializer of block k points at, 0 for NULL.
NextOf(k) ==
  IF OvldBlocks[k].data.next = <<>> THEN 0
  ELSE CHOOSE j \in 0 .. Len(OvldBlocks) :
         IF \E m \in 1 .. Len(OvldBlocks) :
              OvldBlocks[m].name = OvldBlocks[k].data.next[1]
         THEN j > 0 /\ OvldBlocks[j].name = OvldBlocks[k].data.next[1]
         ELSE j = 0

\* The blocks met from block k on by following next, at most fuel of them.
RECURSIVE ChainFrom(_, _)
ChainFrom(k, fuel) ==
  IF k = 0 \/ fuel = 0 THEN <<>>
  ELSE <<k>> \o ChainFrom(NextOf(k), fuel - 1)

\* The blocks of the overloads called n, in the order of their definition.
Group(n) ==
  SelectSeq([k \in 1 .. Len(OvldBlocks) |-> k],
            LAMBDA k : OvldBlocks[k].data.bifname = n)

\* The block found under the name n in ovld_hash once the generated
\* initialisation has run: the last one stored under n, 0 if there is none.
Lookup(n) ==
  LET stored == {k \in 1 .. Len(OvldBlocks) :
                   OvldBlocks[k].data.hashed /\ OvldBlocks[k].data.bifname = n}
  IN IF stored = {} THEN 0 ELSE CHOOSE k \in stored : \A m \in stored : m <= k

\* C24: after a run on valid files, for each name the chain that starts at
\* the block stored in the lookup under that name holds the blocks of all
\* overloads of that name, each once and in the order of their definition.
C24_ChainsComplete ==
  GeneratedFromValid =>
    \A k \in 1 .. Len(OvldBlocks) :
      LET n == OvldBlocks[k].data.bifname
      IN /\ Lookup(n) = Group(n)[1]
         /\ ChainFrom(Lookup(n), Len(OvldBlocks) + 1) = Group(n)

\* The built-in blocks of the init file, in the order written.
BifBlocks == SelectSeq(init_out.text, LAMBDA it : it.kind = "bif")

\* The value of the condition written after "new_builtins_are_live &&" in
\* front of add_builtin_function, for a stanza mask of the bits mask, the
\* bits builtin_mask and a value of TARGET_EXTRA_BUILTINS.
GuardValue(guard, mask, builtin_mask, extra) ==
  CASE guard = "(mask & builtin_mask) != mask" ->
         (mask \cap builtin_mask) # mask
    [] guard = "TARGET_EXTRA_BUILTINS || (mask & builtin_mask) == mask" ->
         extra \/ (mask \cap builtin_mask) = mask
    [] OTHER -> FALSE

\* The masks of the stanzas, each taken as one bit of builtin_mask.
MaskNames == {bif_stanzas[k] : k \in 1 .. Len(bif_stanzas)}

\* C25: the condition that guards the registration of a built-in holds
\* exactly when the mask of its stanza is enabled: all its bits are set in
\* builtin_mask, or, for MASK_ALTIVEC and MASK_VSX, TARGET_EXTRA_BUILTINS
\* holds.
C25_GuardIsMaskEnabled ==
  pc = "exit" /\ exit_code = EC_OK =>
    \A k \in 1 .. Len(BifBlocks) :
      \A builtin_mask \in SUBSET MaskNames, extra \in BOOLEAN :
        LET mask == BifBlocks[k].data.mask
        IN GuardValue(BifBlocks[k].data.guard, {mask}, builtin_mask, extra)
           <=> \/ {mask} \subseteq builtin_mask
               \/ /\ Str(mask) \in {"MASK_ALTIVEC", "MASK_VSX"}
                  /\ extra

(***************************************************************************)
(* map_token_to_type_node on its own: the token is a key of type_map or    *)
(* not, and the step looks it up.                                          *)
(***************************************************************************)
Keys == {type_map[k].key : k \in 1 .. TYPE_MAP_SIZE}

\* Each key, each key followed by a letter, and tokens below, between and
\* above the keys.
Tokens ==
  Keys \cup {k \o <<"x">> : k \in Keys}
  \cup {<<"a">>, <<"s", "j">>, <<"V">>, <<"z", "z">>}

InitToken ==
  /\ pc = "token"
  /\ tline \in Tokens
  /\ tres = NoResult
  /\ exit_code = EC_OK
  /\ diags = <<>>
  /\ bif_text = <<>> /\ ovld_text = <<>> /\ pending = <<>>
  /\ linebuf = <<>> /\ pos = 0 /\ line = 0
  /\ bif_stanzas = <<>> /\ curr_bif_stanza = 0 /\ bifs = <<>> /\ curr_bif = 0
  /\ ovld_stanzas = <<>> /\ curr_ovld_stanza = 0 /\ ovlds = <<>> /\ curr_ovld = 0
  /\ bif_rbt = {} /\ ovld_rbt = {} /\ fntype_rbt = {}
  /\ header_out = NewFile /\ init_out = NewFile /\ defines_out = NewFile
  /\ SyncIdle
  /\ Started

\* map_token_to_type_node (tok): it returns a value, or the run ends.
MapToken ==
  /\ pc = "token"
  /\ tres' = map_token_to_type_node(tline)
  /\ IF tres'.st = "interr"
     THEN Exit(EC_INTERR)
     ELSE pc' = "mapped" /\ UNCHANGED exit_code
  /\ UNCHANGED <<diags, bif_text, ovld_text, scanner_vars, bif_vars, ovld_vars,
                 fntype_rbt, out_vars, tline>>
  /\ UNCHANGED <<path_vars, earlier, sync_vars>>

NextToken == MapToken

SpecToken == InitToken /\ [][NextToken]_vars

\* C26: the lookup of a key returns the value of that key; the lookup of a
\* token that is no key returns nothing and ends the run with EC_INTERR.
C26_CorrectLookup ==
  pc # "token" =>
    IF tline \in Keys
    THEN /\ pc = "mapped"
         /\ \E k \in 1 .. TYPE_MAP_SIZE :
              type_map[k].key = tline /\ tres.node = type_map[k].value
    ELSE pc = "exit" /\ exit_code = EC_INTERR

\* C27: after a run that ended with EC_OK the init file holds one built-in
\* block for each entry of the built-in file and one overload block for each
\* entry of the overload file, every one of them written from an entry that
\* was parsed to its end; a file without entries gives no block.
C27_BlocksAreEntries ==
  pc = "exit" /\ exit_code = EC_OK =>
    /\ Len(BifBlocks) = Len(bifs)
    /\ \A k \in 1 .. Len(bifs) :
         bifs[k].idname # NULL /\ BifBlocks[k].name = bifs[k].idname
    /\ Len(OvldBlocks) = Len(ovlds)
    /\ \A k \in 1 .. Len(ovlds) :
         ovlds[k].idname # NULL /\ OvldBlocks[k].name = ovlds[k].idname

(***************************************************************************)
(* Every spelling of a type that match_type knows, as a return type and    *)
(* as an argument, for the fragments the mangler writes for it.            *)
(***************************************************************************)
\* The 19 vector shorthands.
VecTexts ==
  { <<"v", "s", "c">>, <<"v", "u", "c">>, <<"v", "b", "c">>,
    <<"v", "s", "s">>, <<"v", "u", "s">>, <<"v", "b", "s">>,
    <<"v", "s", "i">>, <<"v", "u", "i">>, <<"v", "b", "i">>,
    <<"v", "s", "l", "l">>, <<"v", "u", "l", "l">>,
    <<"v", "b", "l", "l">>, <<"v", "s", "q">>, <<"v", "u", "q">>,
    <<"v", "b", "q">>, <<"v", "p">>, <<"v", "f">>, <<"v", "d">>,
    <<"v", "o", "p">> }

\* The base types of match_basetype.
BaseTexts ==
  { <<"c", "h", "a", "r">>, <<"s", "h", "o", "r", "t">>,
    <<"i", "n", "t">>, <<"l", "o", "n", "g", " ", "l", "o", "n", "g">>,
    <<"f", "l", "o", "a", "t">>, <<"d", "o", "u", "b", "l", "e">>,
    <<"_", "_", "i", "n", "t", "1", "2", "8">>,
    <<"_", "F", "l", "o", "a", "t", "1", "2", "8">> }

\* A base type alone, and after "signed" and "unsigned".
SignedTexts ==
  BaseTexts
  \cup {<<"s", "i", "g", "n", "e", "d", " ">> \o b : b \in BaseTexts}
  \cup {<<"u", "n", "s", "i", "g", "n", "e", "d", " ">> \o b : b \in BaseTexts}

PointerTexts == {<<"v", "o", "i", "d", " ", "*">>, <<"i", "n", "t", " ", "*">>, <<"v", "s", "c", " ", "*">>}

FragmentLines ==
  {PrototypeLine(t, <<"f">>, <<>>) :
     t \in VecTexts \cup SignedTexts \cup {<<"v", "o", "i", "d">>, <<"v", "o", "i", "d", " ", "*">>}}
  \cup {PrototypeLine(<<"i", "n", "t">>, <<"f">>, t) :
          t \in VecTexts \cup SignedTexts \cup PointerTexts \cup {<<"c", "o", "n", "s", "t", " ", "i", "n", "t">>}}

InitFragments == InitMangleOn(FragmentLines)

SpecFragments == InitFragments /\ [][NextMangle]_vars

\* The fragments of a type id that reach map_token_to_type_node when
\* write_fntype_init runs on it: the tokens of looked_up, up to the first
\* on which map_token_to_type_node exits.
Fragments(id) ==
  LET used == looked_up(strtok_all(id, <<>>))
      exits == {k \in 1 .. Len(used) : map_token_to_type_node(used[k]).st # "ok"}
      last == IF exits = {} THEN Len(used)
              ELSE CHOOSE k \in exits : \A m \in exits : k <= m
  IN {used[k] : k \in 1 .. last}

\* C28: every fragment of the id the mangler builds for an accepted
\* prototype is a key of type_map, so that write_fntype_init finds the type
\* node of each.
C28_FragmentsAreKeys ==
  IsMangled => Fragments(MangledEntry.fndecl) \subseteq Keys

\* ---------------------------------------------------------------------------
\* libgfortran/nca/sync.c: sync_table, the pairwise synchronisation of images.
\* Each image is a process; the table of counters lives in shared memory and
\* is protected by the process-shared mutex table_lock; image k waits on the
\* condition variable triggers[k] only.

MaxSyncs == 2

\* table[images[i] - 1 + local->num_images * this_image.image_num]
Mine(me, img) == (img - 1) + NumImages * me

\* table[this_image.image_num + (images[i] - 1) * local->num_images]
Theirs(me, img) == me + (img - 1) * NumImages

At_(a) == ipc[a].at

\* The image lists of a matched pairwise synchronisation: a symmetric relation
\* without loops; every image names, in ascending order, its partners.
Pairings ==
  {R \in SUBSET (ImageNums \X ImageNums) :
     /\ R # {}
     /\ \A p \in R : p[1] # p[2] /\ <<p[2], p[1]>> \in R}

RECURSIVE ImagesAscending(_)
ImagesAscending(S) ==
  IF S = {} THEN <<>>
  ELSE LET m == CHOOSE x \in S : \A y \in S : x <= y
       IN <<m>> \o ImagesAscending(S \ {m})

ImageList(R, a) == ImagesAscending({b + 1 : b \in {c \in ImageNums : <<a, c>> \in R}})

InitSync ==
  /\ pc = "sync"
  /\ tline = <<>> /\ tres = NoResult
  /\ exit_code = EC_OK
  /\ diags = <<>>
  /\ bif_text = <<>> /\ ovld_text = <<>> /\ pending = <<>>
  /\ linebuf = <<>> /\ pos = 0 /\ line = 0
  /\ bif_stanzas = <<>> /\ curr_bif_stanza = 0 /\ bifs = <<>> /\ curr_bif = 0
  /\ ovld_stanzas = <<>> /\ curr_ovld_stanza = 0 /\ ovlds = <<>> /\ curr_ovld = 0
  /\ bif_rbt = {} /\ ovld_rbt = {} /\ fntype_rbt = {}
  /\ header_out = NoFile /\ init_out = NoFile /\ defines_out = NoFile
  /\ Unstarted
  /\ table = shared_malloc(NumImages * NumImages)
  /\ table_lock = NoImage
  /\ ipc = [a \in ImageNums |-> [at |-> "idle", i |-> 0]]
  /\ entered = [a \in ImageNums |-> 0]
  /\ returned = [a \in ImageNums |-> 0]
  /\ \E R \in Pairings, n \in 1 .. MaxSyncs :
       /\ sync_images = [a \in ImageNums |-> ImageList(R, a)]
       /\ sync_calls = [a \in ImageNums |-> IF ImageList(R, a) = <<>> THEN 0 ELSE n]

\* An image calls sync_table (si, images, size) and blocks in
\* get_locked_table until the mutex is free.
SyncCall(me) ==
  /\ pc = "sync" /\ At_(me) = "idle"
  /\ entered[me] < sync_calls[me]
  /\ entered' = [entered EXCEPT ![me] = @ + 1]
  /\ ipc' = [ipc EXCEPT ![me] = [at |-> "lock", i |-> 0]]
  /\ UNCHANGED <<table, table_lock, sync_images, sync_calls, returned, gen_vars>>

\* get_locked_table: pthread_mutex_lock (&si->cis->table_lock).
get_locked_table(me) ==
  /\ pc = "sync" /\ At_(me) = "lock"
  /\ table_lock = NoImage
  /\ table_lock' = me
  /\ ipc' = [ipc EXCEPT ![me] =
       IF Len(sync_images[me]) = 0 THEN [at |-> "check", i |-> 0]
       ELSE [at |-> "incr", i |-> 1]]
  /\ UNCHANGED <<table, sync_images, sync_calls, entered, returned, gen_vars>>

\* pthread_cond_signal (&si->triggers[k]): image k, the only waiter on that
\* condition, is released if it waits; otherwise the signal is lost.
cond_signal(positions, k) ==
  IF positions[k].at = "waiting"
  THEN [positions EXCEPT ![k] = [at |-> "woken", i |-> 0]]
  ELSE positions

\* One round of the first loop of sync_table: count and signal.
SyncIncrement(me) ==
  /\ pc = "sync" /\ At_(me) = "incr"
  /\ LET i == ipc[me].i
         img == sync_images[me][i]
         next == IF i = Len(sync_images[me]) THEN [at |-> "check", i |-> 0]
                 ELSE [at |-> "incr", i |-> i + 1]
     IN /\ table' = [table EXCEPT ![Mine(me, img)] = @ + 1]
        /\ ipc' = [cond_signal(ipc, img - 1) EXCEPT ![me] = next]
  /\ UNCHANGED <<table_lock, sync_images, sync_calls, entered, returned, gen_vars>>

\* done, as the inner loop of sync_table computes it.
sync_done_m(me) == TRUE

sync_done(me) ==
  \A i \in 1 .. Len(sync_images[me]) :
    table[Mine(me, sync_images[me][i])] = table[Theirs(me, sync_images[me][i])]

\* One round of the second loop: leave it when done, else wait_table_cond,
\* which releases the mutex and blocks on triggers[this_image.image_num].
SyncCheck(me) ==
  /\ pc = "sync" /\ At_(me) = "check"
  /\ IF sync_done(me)
     THEN /\ ipc' = [ipc EXCEPT ![me] = [at |-> "unlock", i |-> 0]]
          /\ UNCHANGED table_lock
     ELSE /\ ipc' = [ipc EXCEPT ![me] = [at |-> "waiting", i |-> 0]]
          /\ table_lock' = NoImage
  /\ UNCHANGED <<table, sync_images, sync_calls, entered, returned, gen_vars>>

\* pthread_cond_wait returns: the signalled image takes the mutex again.
SyncWake(me) ==
  /\ pc = "sync" /\ At_(me) = "woken"
  /\ table_lock = NoImage
  /\ table_lock' = me
  /\ ipc' = [ipc EXCEPT ![me] = [at |-> "check", i |-> 0]]
  /\ UNCHANGED <<table, sync_images, sync_calls, entered, returned, gen_vars>>

\* pthread_cond_wait may also return without a signal.
SpuriousWake(me) ==
  /\ pc = "sync" /\ At_(me) = "waiting"
  /\ ipc' = [ipc EXCEPT ![me] = [at |-> "woken", i |-> 0]]
  /\ UNCHANGED <<table, table_lock, sync_images, sync_calls, entered, returned,
                 gen_vars>>

\* unlock_table, and sync_table returns.
SyncReturn(me) ==
  /\ pc = "sync" /\ At_(me) = "unlock"
  /\ table_lock' = NoImage
  /\ returned' = [returned EXCEPT ![me] = @ + 1]
  /\ ipc' = [ipc EXCEPT ![me] = [at |-> "idle", i |-> 0]]
  /\ UNCHANGED <<table, sync_images, sync_calls, entered, gen_vars>>

NextSync ==
  \/ \E me \in ImageNums : SyncCall(me)
  \/ \E me \in ImageNums : get_locked_table(me)
  \/ \E me \in ImageNums : SyncIncrement(me)
  \/ \E me \in ImageNums : SyncCheck(me)
  \/ \E me \in ImageNums : SyncWake(me)
  \/ \E me \in ImageNums : SpuriousWake(me)
  \/ \E me \in ImageNums : SyncReturn(me)

SpecSync == InitSync /\ [][NextSync]_vars

\* Fair scheduling: an image that can run does run, and an image that asks
\* for the mutex infinitely often while it is free gets it.  A return of
\* pthread_cond_wait without a signal is allowed and never promised.
SyncRuns(me) ==
  SyncCall(me) \/ SyncIncrement(me) \/ SyncCheck(me) \/ SyncReturn(me)

SyncAcquires(me) == get_locked_table(me) \/ SyncWake(me)

SpecSyncFair ==
  /\ InitSync
  /\ [][NextSync]_vars
  /\ \A me \in ImageNums : WF_vars(SyncRuns(me)) /\ SF_vars(SyncAcquires(me))

\* C29: under fair scheduling every sync_table call of a matched pairwise
\* synchronisation eventually returns: each image ends with as many returns
\* as it makes calls.
C29_EveryCallReturns ==
  <>(\A a \in ImageNums : returned[a] = sync_calls[a])

\* C30: an image never returns from its k-th call before every image it names
\* has entered its k-th call; an image that reads or writes the table holds
\* table_lock; and when an image is about to return, its counter for each
\* image it names equals that image's counter for it.
C30_BarrierSafety ==
  \A a \in ImageNums :
    /\ \A i \in 1 .. Len(sync_images[a]) :
         returned[a] <= entered[sync_images[a][i] - 1]
    /\ At_(a) \in {"incr", "check", "unlock"} => table_lock = a
    /\ At_(a) = "unlock" =>
         \A i \in 1 .. Len(sync_images[a]) :
           table[Mine(a, sync_images[a][i])] = table[Theirs(a, sync_images[a][i])]

\* An image that names two others is about to return from its second call.
C30_Witness ==
  \E a \in ImageNums :
    /\ At_(a) = "unlock"
    /\ returned[a] = 1
    /\ Len(sync_images[a]) = 2

====
